---- MODULE Spec2Model ----
(***************************************************************************)
(* Verification model of com.sortedbits.blauhoff: the CommandQueue, the    *)
(* two register transports (ModbusAPI2, SolarmanAPI2) and the composite    *)
(* device actions of the Deye SUN-xK-SG01HP3 model.                        *)
(*                                                                         *)
(* Execution model.  The program runs on the JavaScript event loop: the    *)
(* code from one event (an external call, a timer firing, a socket or      *)
(* connection callback) up to the next point at which every invocation is  *)
(* suspended on a timer or on the network runs without interleaving.  One  *)
(* action of this model is one such turn: it includes every continuation   *)
(* (finally blocks, the return into the caller, the synchronous prefix of  *)
(* the next call made by the caller) that the event triggers.              *)
(***************************************************************************)
EXTENDS Integers, Sequences, FiniteSets, TLC

\* -------------------------------------------------------------- bounds
\* Number of invocations (concurrent callers) of one API instance.
NumCalls == 3
\* Number of invocations where both transports, or the device actions with
\* their longer programs, are explored.
ApiCalls == 2
\* Number of register batches of one read cycle (input batches first).
NumBatches == 2

\* ---------------------------------------------------- program constants
\* maxOccurences passed by ModbusAPI2.readRegisters
ReadMaxOccurences == 2
\* maxOccurences passed by the ModbusAPI2 write and single-read operations
WriteMaxOccurences == 999
\* bytes per register word (register.length * 2)
WordBytes == 2

VARIABLES
    transport,       \* "modbus" (ModbusAPI2) or "solarman" (SolarmanAPI2): the API instance
    queue,           \* CommandQueue.queue: the live entries, in push order
    busy,            \* CommandQueue.busy (ModbusAPI2) / SolarmanAPI2.busy
    detached,        \* number of wait() loops whose promise nobody awaits
    runningRequest,  \* SolarmanAPI2.runningRequest
    isRunningAction, \* ModbusDevice.isRunningAction
    mem,             \* the device: contents of each holding register
    pc,              \* per invocation: where it is suspended
    op,              \* per invocation: the operation that was called
    register,        \* per invocation: the register argument (address)
    values,          \* per invocation: the values argument of writeRegisters
    bitIndex,        \* per invocation: the bitIndex argument of writeBitsToRegister
    step,            \* per invocation: index of the current instruction of its program
    client,          \* per invocation: the ModbusRTU client / Socket of the current operation
    readBuffer,      \* per invocation: the buffer returned by its last single-register read
    results,         \* per invocation: the RegisterOutput list of its read cycle (batch ids)
    trace,           \* per invocation: result of each instruction it has completed
    outcomes,        \* per invocation: what the network answered to each request it sent
    ret,             \* per invocation: what the call returned
    now,             \* DateTime.now(), in seconds
    lastSuccessfullRead,  \* per BaseDevice: lastSuccessfullRead (NoRead: undefined)
    isInInvalidState,     \* per BaseDevice: the capabilities whose isInInvalidState flag is set
    triggered,       \* per BaseDevice and capability: invalid_value_received triggers fired
                     \*   since a valid value of the capability was last applied
    baseRunningRequest,   \* BaseDevice.runningRequest of the inverter device
    runningRequestCount,  \* BaseDevice.runningRequestCount
    readRegisterTimeout,  \* BaseDevice.readRegisterTimeout: the timer it references ("none", 0: no timer)
    isStopping,      \* BaseDevice.isStopping
    api,             \* per BaseDevice: whether its api field holds an API instance
    batteryRunningRequest,  \* BaseDevice.runningRequest of the battery device
    device,          \* per invocation: the BaseDevice it runs on
    cursor,          \* per invocation: index of the registerValue handleResults is at
    handled          \* per invocation: what its handleResults has done so far

\* The invocations of the behaviour at hand.
Calls == DOMAIN pc

shared == <<queue, busy, detached, runningRequest>>
locals == <<pc, op, register, values, bitIndex, step, client, readBuffer, results, trace,
           outcomes, ret>>
\* The state of the BaseDevice objects (inverter and battery device).
\* The fields that tell the role of a BaseDevice apart.
roleVars == <<api, batteryRunningRequest>>
devVars == <<now, lastSuccessfullRead, isInInvalidState, triggered, baseRunningRequest,
             runningRequestCount, readRegisterTimeout, isStopping, device, cursor, handled,
             roleVars>>
vars == <<transport, queue, busy, detached, runningRequest, isRunningAction, mem, pc, op, register, values,
          bitIndex, step, client, readBuffer, results, trace, outcomes, ret, devVars>>

\* ------------------------------------------------------------ helpers
\* The two BaseDevice objects of one inverter: the inverter device, which
\* polls, and the battery device linked to it, which gets the results.
Devices == {"inverter", "battery"}
\* The DeviceType each BaseDevice looks for in register.deviceTypes.
DeviceTypeOf(d) == IF d = "battery" THEN "BATTERY" ELSE "SOLAR"
\* Capabilities of the registers read: one of each device type.
Capabilities == {"measure_power", "measure_battery"}
\* lastSuccessfullRead before the first handleResults: undefined.
NoRead == -1
\* A handleResults execution that has done nothing yet: the values it has
\* applied, whether it forwarded the results, whether it set
\* lastSuccessfullRead.
NotHandled == [applied |-> <<>>, forwarded |-> FALSE, stamped |-> FALSE]

Count(q, command) == Cardinality({i \in 1..Len(q) : q[i] = command})

RECURSIVE RemoveFirst(_, _)
RemoveFirst(q, command) ==
    IF q = <<>> THEN <<>>
    ELSE IF Head(q) = command THEN Tail(q)
    ELSE <<Head(q)>> \o RemoveFirst(Tail(q), command)

\* value with bit i (counted from the least significant bit) set to b
SetBit(value, i, b) == value - ((value \div (2 ^ i)) % 2) * (2 ^ i) + b * (2 ^ i)

\* ------------------------------------------------------- register model
\* The register arguments the callers pass: an address and an access mode.
RWRegister == [address |-> 146, accessMode |-> "ReadWrite"]
RORegister == [address |-> 3, accessMode |-> "ReadOnly"]
NoRegister == [address |-> 0, accessMode |-> "ReadWrite"]
Reg(a) == [address |-> a, accessMode |-> "ReadWrite"]

\* A value of a writeRegisters list: a number or a Buffer.  Whether
\* validateValue accepts a number for the register's data type is an input:
\* Num(n) is a number it accepts, Bad(n) one it rejects.
Num(n) == [isBuffer |-> FALSE, v |-> n, valid |-> TRUE]
Bad(n) == [isBuffer |-> FALSE, v |-> n, valid |-> FALSE]
Buf(n) == [isBuffer |-> TRUE, v |-> n, valid |-> FALSE]

\* The call validateValue(value, register.dataType)
validateValue(value) == value.valid

\* The validation loop at the head of writeRegisters: the first invalid
\* non-Buffer value makes the call return false.
AllValid(vals) ==
    \A i \in 1..Len(vals) : vals[i].isBuffer \/ validateValue(vals[i])

\* writeBitsToBuffer / writeBitsToBufferBE: the flags of bits are applied to
\* successive bit positions from bitIdx on, counted from the least
\* significant bit of the register value; every other bit is kept.
RECURSIVE writeBitsToBuffer(_, _, _)
writeBitsToBuffer(buffer, bits, bitIdx) ==
    IF bits = <<>> THEN buffer
    ELSE writeBitsToBuffer(SetBit(buffer, bitIdx, Head(bits)), Tail(bits), bitIdx + 1)

\* The range check of writeBitsToRegister: readBuffer.length * 8 < bitIndex + bits.length
BitIndexOutOfRange(bits, bitIdx) == WordBytes * 8 < bitIdx + Len(bits)

\* ------------------------------------------------------- CommandQueue
\* CommandQueue.setBusy
setBusy(S, value) == [S EXCEPT !.busy = value]

\* Variant of wait that refuses only above maxOccurences queued entries
\* (`>` for `>=`); C6_AtMostMaxBlocked tells it from wait.
waitOffByOne(S, command, maxOccurences) ==
    IF Count(S.queue, command) > maxOccurences
    THEN [S |-> S, result |-> "refused"]
    ELSE IF S.busy
    THEN [S |-> [S EXCEPT !.queue = Append(S.queue, command)], result |-> "blocked"]
    ELSE [S |-> [S EXCEPT !.queue = RemoveFirst(Append(S.queue, command), command),
                          !.busy = TRUE],
          result |-> "admitted"]

\* CommandQueue.wait up to its first suspension: "refused" (returns false),
\* "admitted" (returns true at once) or "blocked" (suspended in the loop,
\* its entry left in the queue).
wait(S, command, maxOccurences) ==
    IF Count(S.queue, command) >= maxOccurences
    THEN [S |-> S, result |-> "refused"]
    ELSE IF S.busy
    THEN [S |-> [S EXCEPT !.queue = Append(S.queue, command)], result |-> "blocked"]
    ELSE [S |-> [S EXCEPT !.queue = RemoveFirst(Append(S.queue, command), command),
                          !.busy = TRUE],
          result |-> "admitted"]

\* Variant of the loop exit of wait that leaves the entry in the queue;
\* C39_EntriesAreTheBlockedWaits tells it from the code.
waitResumeKeepsEntry(S, command) ==
    [S EXCEPT !.busy = TRUE]

\* CommandQueue.wait from the loop exit on: the entry is deleted, busy is set.
waitResume(S, command) ==
    [S EXCEPT !.queue = RemoveFirst(S.queue, command), !.busy = TRUE]

\* The command name each ModbusAPI2 operation passes to wait.
CommandOf(prim) ==
    CASE prim = "readRegisters" -> "readRegisters"
      [] prim = "writeRegisters" -> "writeRegisters"
      [] OTHER -> "writeBufferRegister"

\* ------------------------------------------------- operations as programs
\* An operation is the sequence of transport primitives (and 500 ms delays)
\* it awaits one after the other, with what it does when one of them
\* returns false/undefined (onFalse) or throws (onThrow).
Ins(prim, reg) == [prim |-> prim, reg |-> reg]
Delay == Ins("delay", NoRegister)

ApiOps == {"readRegisters", "readAddressWithoutConversion", "writeRegisters",
           "writeBufferRegister", "writeBitsToRegister"}
DeviceActions == {"setWorkmodeAndZeroExportPower", "setGridPeakShavingOn",
                  "setAllTimeslotParameters", "setTimeOfUseTimeslotParameters",
                  "setTimeOfUseDayEnabled"}

\* ModbusAPI2.writeBitsToRegister / SolarmanAPI2.writeBitsToRegister, updateBitsInRegister
writeBitsToRegister(r) ==
    [program |-> <<Ins("readAddressWithoutConversion", r), Ins("writeBufferRegister", r)>>,
     onFalse |-> "return", onThrow |-> "throw", returns |-> "value", bits |-> <<1>>]

\* DeyeSunXKSG01HP3.setWorkmodeAndZeroExportPower: the result of the first
\* write is logged, not tested; an exception ends the action.
setWorkmodeAndZeroExportPower ==
    [program |-> <<Ins("writeRegisters", Reg(142)), Ins("writeRegisters", Reg(104))>>,
     onFalse |-> "continue", onThrow |-> "return", returns |-> "void", bits |-> <<>>]

\* DeyeSunXKSG01HP3.setGridPeakShavingOn: writeBitsToRegister(178, [1, 1], 4),
\* then, if (result), writeRegister(191).
setGridPeakShavingOn ==
    [program |-> <<Ins("readAddressWithoutConversion", Reg(178)),
                   Ins("writeBufferRegister", Reg(178)),
                   Ins("writeRegisters", Reg(191))>>,
     onFalse |-> "return", onThrow |-> "return", returns |-> "void", bits |-> <<1, 1>>]

\* Variant of setAllTimeslotParameters that does not test the result of its
\* writes; C25_TimeslotWritesInOrder tells it from the code.
setAllTimeslotParametersUntested ==
    [program |-> <<Ins("writeRegisters", Reg(172)), Delay,
                   Ins("writeRegisters", Reg(154)), Delay,
                   Ins("writeRegisters", Reg(166))>>,
     onFalse |-> "continue", onThrow |-> "throw", returns |-> "void", bits |-> <<>>]

\* DeyeSunXKSG01HP3.setAllTimeslotParameters: three writeRegisters, each
\* followed by `=== false` -> throw, 500 ms apart.
setAllTimeslotParameters ==
    [program |-> <<Ins("writeRegisters", Reg(172)), Delay,
                   Ins("writeRegisters", Reg(154)), Delay,
                   Ins("writeRegisters", Reg(166))>>,
     onFalse |-> "throw", onThrow |-> "throw", returns |-> "void", bits |-> <<>>]

\* DeyeSunXKSG01HP3.setTimeOfUseTimeslotParameters for the timeslot whose
\* charge register is r (172 + timeslot - 1).
setTimeOfUseTimeslotParameters(r) ==
    [program |-> <<Ins("writeRegisters", r), Delay,
                   Ins("writeRegisters", Reg(r.address - 18)), Delay,
                   Ins("writeRegisters", Reg(r.address - 6)), Delay,
                   Ins("writeRegisters", Reg(r.address - 24))>>,
     onFalse |-> "throw", onThrow |-> "throw", returns |-> "void", bits |-> <<>>]

\* DeyeSunXKSG01HP3.setTimeOfUseDayEnabled: a day outside 1..7 is logged
\* ('Invalid day') and the action goes on; writeBitsToRegister(146, [1],
\* day) inside try/catch, its result logged.
setTimeOfUseDayEnabled ==
    [program |-> <<Ins("readAddressWithoutConversion", Reg(146)),
                   Ins("writeBufferRegister", Reg(146))>>,
     onFalse |-> "return", onThrow |-> "return", returns |-> "void", bits |-> <<1>>]

\* A transport operation called directly.
Primitive(o, r) ==
    [program |-> <<Ins(o, r)>>, onFalse |-> "return", onThrow |-> "throw",
     returns |-> "value", bits |-> <<>>]

OpDef(o, r) ==
    CASE o = "writeBitsToRegister" -> writeBitsToRegister(r)
      [] o = "setWorkmodeAndZeroExportPower" -> setWorkmodeAndZeroExportPower
      [] o = "setGridPeakShavingOn" -> setGridPeakShavingOn
      [] o = "setAllTimeslotParameters" -> setAllTimeslotParameters
      [] o = "setTimeOfUseTimeslotParameters" -> setTimeOfUseTimeslotParameters(r)
      [] o = "setTimeOfUseDayEnabled" -> setTimeOfUseDayEnabled
      [] OTHER -> Primitive(o, r)

WritePrims == {"writeRegisters", "writeBufferRegister"}
FailResults == {"false", "undefined"}

\* --------------------------------------------- entering a primitive
\* Each Enter operator is the code of a primitive from its call to its first
\* suspension: S is the API instance's state, the result says where the
\* invocation is suspended (pc), or that the primitive returned at once
\* (imm, with result res).
Suspended(S, where) == [S |-> S, pc |-> where, imm |-> FALSE, res |-> "none"]
Returned(S, res) == [S |-> S, pc |-> "none", imm |-> TRUE, res |-> res]

\* Variant of readRegisters that releases the queue when its wait was
\* refused; C20_RefusedReadChangesNothing tells it from the code.
modbusReadRegistersEnterRelease(S) ==
    LET w == wait(S, "readRegisters", ReadMaxOccurences) IN
    CASE w.result = "refused" -> Returned(setBusy(w.S, FALSE), "list")
      [] w.result = "blocked" -> Suspended(w.S, "queued")
      [] OTHER -> Suspended(w.S, "connecting")

\* ModbusAPI2.readRegisters up to `await this.connect()`
modbusReadRegistersEnter(S) ==
    LET w == wait(S, "readRegisters", ReadMaxOccurences) IN
    CASE w.result = "refused" -> Returned(w.S, "list")
      [] w.result = "blocked" -> Suspended(w.S, "queued")
      [] OTHER -> Suspended(w.S, "connecting")

\* Variant of writeRegisters that validates only the first value of the
\* list; C8_InvalidValueFailsClosed tells it from the code.
modbusWriteRegistersEnterFirstValue(ins, vals, S) ==
    IF ins.reg.accessMode = "ReadOnly" THEN Returned(S, "false")
    ELSE IF vals # <<>> /\ ~AllValid(<<Head(vals)>>) THEN Returned(S, "false")
    ELSE LET w == wait(S, "writeRegisters", WriteMaxOccurences) IN
         IF w.result = "blocked"
         THEN Suspended([w.S EXCEPT !.detached = @ + 1], "connecting")
         ELSE Suspended(w.S, "connecting")

\* ModbusAPI2.writeRegisters up to `await this.connect()`: the promise of
\* queue.wait is not awaited, so the call goes on to connect whatever wait
\* does; a wait that found the queue busy stays behind as a detached loop.
modbusWriteRegistersEnter(ins, vals, S) ==
    IF ins.reg.accessMode = "ReadOnly" THEN Returned(S, "false")
    ELSE IF ~AllValid(vals) THEN Returned(S, "false")
    ELSE LET w == wait(S, "writeRegisters", WriteMaxOccurences) IN
         IF w.result = "blocked"
         THEN Suspended([w.S EXCEPT !.detached = @ + 1], "connecting")
         ELSE Suspended(w.S, "connecting")

\* ModbusAPI2.writeBufferRegister and readAddressWithoutConversion up to
\* `await this.connect()`: both await queue.wait('writeBufferRegister', 999)
\* and ignore its result.
modbusSingleEnter(S) ==
    LET w == wait(S, "writeBufferRegister", WriteMaxOccurences) IN
    IF w.result = "blocked" THEN Suspended(w.S, "queued")
    ELSE Suspended(w.S, "connecting")

EnterModbus(ins, vals, S) ==
    CASE ins.prim = "delay" -> Suspended(S, "delay")
      [] ins.prim = "readRegisters" -> modbusReadRegistersEnter(S)
      [] ins.prim = "writeRegisters" -> modbusWriteRegistersEnter(ins, vals, S)
      [] OTHER -> modbusSingleEnter(S)

\* Variant of performRequest without the loop on runningRequest;
\* C16_OneSolarmanRequestAtATime tells it from the code.
performRequestEnterNoLoop(S) ==
    Suspended([S EXCEPT !.runningRequest = TRUE], "requesting")

\* SolarmanAPI2.performRequest up to its first suspension: the poll loop on
\* runningRequest, or the request handed to performRequestQueued.
performRequestEnter(S) ==
    IF S.runningRequest THEN Suspended(S, "pending")
    ELSE Suspended([S EXCEPT !.runningRequest = TRUE], "requesting")

\* SolarmanAPI2.waitInQueue followed by the first readBatch of readRegisters
solarmanReadRegistersEnter(S) ==
    IF S.busy THEN Suspended(S, "queued")
    ELSE performRequestEnter([S EXCEPT !.busy = TRUE])

\* SolarmanAPI2.writeRegisters up to performRequest
solarmanWriteRegistersEnter(vals, S) ==
    IF ~AllValid(vals) THEN Returned(S, "false") ELSE performRequestEnter(S)

EnterSolarman(ins, vals, S) ==
    CASE ins.prim = "delay" -> Suspended(S, "delay")
      [] ins.prim = "readRegisters" -> solarmanReadRegistersEnter(S)
      [] ins.prim = "writeRegisters" -> solarmanWriteRegistersEnter(vals, S)
      [] OTHER -> performRequestEnter(S)

Enter(ins, vals, S) ==
    IF transport = "modbus" THEN EnterModbus(ins, vals, S) ELSE EnterSolarman(ins, vals, S)

\* ------------------------------------------ the caller's continuation
\* What the operation does with the result res of its instruction st.
Decide(def, c, st, res) ==
    IF res = "throw" THEN (IF def.onThrow = "throw" THEN "throw" ELSE "return")
    ELSE IF res \in FailResults THEN def.onFalse
    ELSE IF /\ def.program[st].prim = "readAddressWithoutConversion"
            /\ def.bits # <<>>
            /\ BitIndexOutOfRange(def.bits, c.bitIndex)
    THEN "return"
    ELSE "continue"

\* The value the operation returns to its caller.
ReturnValue(def, st, res, d) ==
    IF d = "throw" THEN "throw"
    ELSE IF def.returns = "void" THEN "void"
    ELSE IF def.bits # <<>> /\ def.program[st].prim = "readAddressWithoutConversion"
    THEN "false"
    ELSE res

\* StartAt enters instruction st of the operation of context c; After is
\* the continuation that runs when instruction st has produced res.  Both
\* run to the invocation's next suspension (or to its return).
RECURSIVE StartAt(_, _, _, _), After(_, _, _, _, _)
StartAt(c, st, S, tr) ==
    LET def == OpDef(c.op, c.register)
        e == Enter(def.program[st], c.values, S)
    IN  IF e.imm THEN After(c, st, e.res, e.S, tr)
        ELSE [S |-> e.S, pc |-> e.pc, step |-> st, ret |-> "none", trace |-> tr]

After(c, st, res, S, tr) ==
    LET def == OpDef(c.op, c.register)
        d == Decide(def, c, st, res)
        tr2 == Append(tr, res)
    IN  IF d = "continue" /\ st < Len(def.program)
        THEN StartAt(c, st + 1, S, tr2)
        ELSE [S |-> S, pc |-> "done", step |-> st,
              ret |-> ReturnValue(def, st, res, d), trace |-> tr2]

\* ------------------------------------------------------------- inputs
\* Addresses of the device's holding registers the operations touch.
Addresses == {3, 146, 142, 104, 178, 191, 172, 173, 154, 155, 166, 167, 148, 149}
\* Register arguments of the transport operations.
ApiRegisters == {RWRegister, RORegister}
\* Charge registers of the timeslots setTimeOfUseTimeslotParameters is called for.
TimeslotRegisters == {Reg(172), Reg(173)}
\* Values of a writeRegisters list: a number validateValue accepts, one it
\* rejects, a Buffer; the rejected number stands first, last or alone.
ValueLists ==
    {<<Num(1)>>, <<Num(1), Num(1)>>, <<Bad(70000)>>, <<Bad(70000), Num(1)>>,
     <<Num(1), Bad(70000)>>, <<Buf(2), Bad(70000)>>}
\* bitIndex arguments of writeBitsToRegister: two bits of the register and
\* one index beyond its 16 bits.
BitIndexes == {0, 1, 16}

\* ------------------------------------------------------------ actions
Shared == [queue |-> queue, busy |-> busy, detached |-> detached,
           runningRequest |-> runningRequest]

Ctx(p) == [op |-> op[p], register |-> register[p], values |-> values[p],
           bitIndex |-> bitIndex[p]]

CurDef(p) == OpDef(op[p], register[p])
CurIns(p) == CurDef(p).program[step[p]]

frame == <<op, register, values, bitIndex, step, ret, trace, readBuffer>>

\* The invocation (called with context c) and the API instance take the
\* state R (of StartAt / After); rb is the buffer of its last read.  When
\* the call has returned its locals are gone; op, register and values stay
\* as the record of what was called.
ApplyFrame(p, c, R, rb) ==
    /\ isRunningAction' = IF c.op \in DeviceActions THEN R.pc # "done" ELSE isRunningAction
    /\ queue' = R.S.queue
    /\ busy' = R.S.busy
    /\ detached' = R.S.detached
    /\ runningRequest' = R.S.runningRequest
    /\ pc' = [pc EXCEPT ![p] = R.pc]
    /\ step' = [step EXCEPT ![p] = R.step]
    /\ ret' = [ret EXCEPT ![p] = R.ret]
    /\ trace' = [trace EXCEPT ![p] = R.trace]
    /\ op' = [op EXCEPT ![p] = c.op]
    /\ register' = [register EXCEPT ![p] = c.register]
    /\ values' = [values EXCEPT ![p] = c.values]
    /\ bitIndex' = [bitIndex EXCEPT ![p] = IF R.pc = "done" THEN 0 ELSE c.bitIndex]
    /\ readBuffer' = [readBuffer EXCEPT ![p] = IF R.pc = "done" THEN 0 ELSE rb]

\* The same for a caller of the API that is not a BaseDevice poll.
Apply(p, c, R, rb) == ApplyFrame(p, c, R, rb) /\ UNCHANGED devVars

\* The current instruction of p has produced res, the API instance is in
\* state S: the operation's continuation runs.
Finish(p, res, S, rb) ==
    Apply(p, Ctx(p), After(Ctx(p), step[p], res, S, trace[p]), rb)

\* p stays inside its current instruction, suspended at `where`.
StayFrame(p, where, S) ==
    /\ queue' = S.queue
    /\ busy' = S.busy
    /\ detached' = S.detached
    /\ runningRequest' = S.runningRequest
    /\ pc' = [pc EXCEPT ![p] = where]
    /\ UNCHANGED <<isRunningAction, frame>>

Stay(p, where, S) == StayFrame(p, where, S) /\ UNCHANGED devVars

\* An external caller makes the next invocation, p, of operation o with the
\* arguments r, vals, bi (invocations are numbered in the order they are made).
Invoke(p, o, r, vals, bi) ==
    /\ pc[p] = "idle"
    /\ \A q \in Calls : q < p => pc[q] # "idle"
    /\ LET c == [op |-> o, register |-> r, values |-> vals, bitIndex |-> bi] IN
       Apply(p, c, StartAt(c, 1, Shared, <<>>), 0)
    /\ UNCHANGED <<transport, mem, client, results, outcomes>>

CallReadRegisters(p) == Invoke(p, "readRegisters", NoRegister, <<>>, 0)

CallReadAddressWithoutConversion(p) ==
    Invoke(p, "readAddressWithoutConversion", RWRegister, <<>>, 0)

CallWriteRegisters(p) ==
    \E r \in ApiRegisters, vals \in ValueLists : Invoke(p, "writeRegisters", r, vals, 0)

CallWriteBufferRegister(p) ==
    Invoke(p, "writeBufferRegister", RWRegister, <<Buf(2)>>, 0)

\* writeBufferRegister called with a register of access mode ReadOnly.
CallWriteBufferRegisterReadOnly(p) ==
    Invoke(p, "writeBufferRegister", RORegister, <<Buf(2)>>, 0)

CallWriteBitsToRegister(p) ==
    \E bi \in BitIndexes : Invoke(p, "writeBitsToRegister", RWRegister, <<>>, bi)

\* Variant of callAction without the loop on isRunningAction;
\* C36_FlagIsTheRunningAction tells it from the code.
CallDeviceActionAtOnce(p) ==
    \/ Invoke(p, "setWorkmodeAndZeroExportPower", NoRegister, <<Num(1)>>, 0)
    \/ Invoke(p, "setGridPeakShavingOn", NoRegister, <<Num(1)>>, 4)
    \/ Invoke(p, "setAllTimeslotParameters", NoRegister, <<Num(1), Num(1)>>, 0)
    \/ \E r \in TimeslotRegisters :
          Invoke(p, "setTimeOfUseTimeslotParameters", r, <<Num(1)>>, 0)

\* ModbusDevice.callAction runs a device action once isRunningAction is
\* false (a caller polling the flag has not started anything yet); the
\* action is called with arguments that passed its own range checks.
CallDeviceAction(p) ==
    /\ ~isRunningAction
    /\ \/ Invoke(p, "setWorkmodeAndZeroExportPower", NoRegister, <<Num(1)>>, 0)
       \/ Invoke(p, "setGridPeakShavingOn", NoRegister, <<Num(1)>>, 4)
       \/ Invoke(p, "setAllTimeslotParameters", NoRegister, <<Num(1), Num(1)>>, 0)
       \/ \E r \in TimeslotRegisters :
             Invoke(p, "setTimeOfUseTimeslotParameters", r, <<Num(1)>>, 0)

\* CommandQueue.wait leaves its loop: a 500 ms poll finds busy false.
QueueAdmit(p) ==
    /\ transport = "modbus"
    /\ pc[p] = "queued"
    /\ ~busy
    /\ Stay(p, "connecting", waitResume(Shared, CommandOf(CurIns(p).prim)))
    /\ UNCHANGED <<transport, mem, client, results, outcomes>>

\* The same loop exit for a wait() that writeRegisters did not await:
\* nobody uses its result and nobody will call setBusy(false) for it.
DetachedAdmit ==
    /\ detached > 0
    /\ ~busy
    /\ LET S1 == waitResume(Shared, "writeRegisters") IN
       /\ queue' = S1.queue
       /\ busy' = S1.busy
    /\ detached' = detached - 1
    /\ UNCHANGED <<transport, runningRequest, isRunningAction, mem, locals, devVars>>

\* The 500 ms delay between two writes of a device action elapses.
DelayElapsed(p) ==
    /\ pc[p] = "delay"
    /\ Finish(p, "elapsed", Shared, readBuffer[p])
    /\ UNCHANGED <<transport, mem, client, results, outcomes>>

\* What the network answers.
ConnectOutcomes == {"ok", "fail"}
ModbusOutcomes == {"ok", "timeout", "error"}
SolarmanOutcomes == {"ok", "malformed", "timeout", "error"}

\* The device stores the values of a write request from address addr on.
RECURSIVE WriteMem(_, _, _)
WriteMem(m, addr, vals) ==
    IF vals = <<>> THEN m
    ELSE WriteMem(IF addr \in DOMAIN m THEN [m EXCEPT ![addr] = Head(vals).v] ELSE m,
                  addr + 1, Tail(vals))

\* The buffer a writeBufferRegister instruction of invocation p sends: the
\* bits written into the buffer read before (bit operations), or the
\* caller's buffer.
BufferToWrite(p) ==
    IF CurDef(p).bits # <<>>
    THEN <<Buf(writeBitsToBuffer(readBuffer[p], CurDef(p).bits, bitIndex[p]))>>
    ELSE values[p]

\* ModbusAPI2.connect resolves or rejects.  readRegisters awaits it inside
\* its try (catch, then finally: setBusy(false)); the other operations
\* await it before their try, so a rejection leaves the operation at once.
ConnectDone(p, outcome) ==
    /\ transport = "modbus"
    /\ pc[p] = "connecting"
    /\ IF outcome = "ok"
       THEN /\ client' = [client EXCEPT ![p] = "open"]
            /\ Stay(p, "requesting", Shared)
       ELSE /\ client' = client
            /\ IF CurIns(p).prim = "readRegisters"
               THEN Finish(p, "list", setBusy(Shared, FALSE), readBuffer[p])
               ELSE Finish(p, "throw", Shared, readBuffer[p])
    /\ outcomes' = [outcomes EXCEPT ![p] = IF outcome = "ok" THEN @ ELSE Append(@, "noconnect")]
    /\ UNCHANGED <<transport, mem, results>>

\* Variant of the batch loop without the catch around readBatch: the first
\* failed batch ends the cycle (outer catch, finally);
\* C10_FailedBatchDoesNotEndCycle tells it from the code.
ModbusBatchDoneAbort(p, outcome) ==
    /\ transport = "modbus"
    /\ pc[p] = "requesting"
    /\ CurIns(p).prim = "readRegisters"
    /\ LET batch == Len(outcomes[p]) + 1 IN
       /\ outcomes' = [outcomes EXCEPT ![p] = Append(@, outcome)]
       /\ results' = [results EXCEPT ![p] = IF outcome = "ok" THEN Append(@, batch) ELSE @]
       /\ IF batch < NumBatches /\ outcome = "ok"
          THEN Stay(p, "requesting", Shared) /\ client' = client
          ELSE /\ client' = [client EXCEPT ![p] = "closed"]
               /\ Finish(p, "list", setBusy(Shared, FALSE), readBuffer[p])
    /\ UNCHANGED <<transport, mem>>

\* ModbusAPI2.readRegisters: the request of one batch resolves or rejects
\* (readBatch and the loop body catch); after the last batch the finally
\* block releases the queue and closes the client.
ModbusBatchDone(p, outcome) ==
    /\ transport = "modbus"
    /\ pc[p] = "requesting"
    /\ CurIns(p).prim = "readRegisters"
    /\ LET batch == Len(outcomes[p]) + 1 IN
       /\ outcomes' = [outcomes EXCEPT ![p] = Append(@, outcome)]
       /\ results' = [results EXCEPT ![p] = IF outcome = "ok" THEN Append(@, batch) ELSE @]
       /\ IF batch < NumBatches
          THEN Stay(p, "requesting", Shared) /\ client' = client
          ELSE /\ client' = [client EXCEPT ![p] = "closed"]
               /\ Finish(p, "list", setBusy(Shared, FALSE), readBuffer[p])
    /\ UNCHANGED <<transport, mem>>

\* Variant of the write whose finally block does not close the client;
\* C19_ConnectionClosedWithOperation tells it from the code.
ModbusWriteDoneNoClose(p, outcome) ==
    /\ transport = "modbus"
    /\ pc[p] = "requesting"
    /\ CurIns(p).prim \in WritePrims
    /\ LET sent == IF CurIns(p).prim = "writeRegisters" THEN values[p] ELSE BufferToWrite(p)
           res == IF outcome = "ok" THEN "true" ELSE "false"
       IN /\ mem' = IF outcome = "ok" THEN WriteMem(mem, CurIns(p).reg.address, sent) ELSE mem
          /\ Finish(p, res, setBusy(Shared, FALSE), readBuffer[p])
    /\ client' = client
    /\ outcomes' = [outcomes EXCEPT ![p] = Append(@, outcome)]
    /\ UNCHANGED <<transport, results>>

\* ModbusAPI2.writeRegisters / writeBufferRegister: client.writeRegisters
\* resolves (true) or rejects (false); finally: setBusy(false), close.
ModbusWriteDone(p, outcome) ==
    /\ transport = "modbus"
    /\ pc[p] = "requesting"
    /\ CurIns(p).prim \in WritePrims
    /\ LET sent == IF CurIns(p).prim = "writeRegisters" THEN values[p] ELSE BufferToWrite(p)
           res == IF outcome = "ok" THEN "true" ELSE "false"
       IN /\ mem' = IF outcome = "ok" THEN WriteMem(mem, CurIns(p).reg.address, sent) ELSE mem
          /\ Finish(p, res, setBusy(Shared, FALSE), readBuffer[p])
    /\ client' = [client EXCEPT ![p] = "closed"]
    /\ outcomes' = [outcomes EXCEPT ![p] = Append(@, outcome)]
    /\ UNCHANGED <<transport, results>>

\* ModbusAPI2.readAddressWithoutConversion: the read resolves with a buffer
\* or rejects (undefined); finally: setBusy(false), close.
ModbusReadDone(p, outcome) ==
    /\ transport = "modbus"
    /\ pc[p] = "requesting"
    /\ CurIns(p).prim = "readAddressWithoutConversion"
    /\ IF outcome = "ok"
       THEN Finish(p, "buffer", setBusy(Shared, FALSE), mem[CurIns(p).reg.address])
       ELSE Finish(p, "undefined", setBusy(Shared, FALSE), readBuffer[p])
    /\ client' = [client EXCEPT ![p] = "closed"]
    /\ outcomes' = [outcomes EXCEPT ![p] = Append(@, outcome)]
    /\ UNCHANGED <<transport, mem, results>>

\* SolarmanAPI2.waitInQueue leaves its loop (a 500 ms poll finds busy
\* false), sets busy and readRegisters goes on to its first readBatch.
WaitInQueueExit(p) ==
    /\ transport = "solarman"
    /\ pc[p] = "queued"
    /\ ~busy
    /\ LET e == performRequestEnter([Shared EXCEPT !.busy = TRUE]) IN Stay(p, e.pc, e.S)
    /\ UNCHANGED <<transport, mem, client, results, outcomes>>

\* SolarmanAPI2.performRequest leaves its loop: a 100 ms poll finds
\* runningRequest false.
PerformRequestExit(p) ==
    /\ transport = "solarman"
    /\ pc[p] = "pending"
    /\ ~runningRequest
    /\ LET e == performRequestEnter(Shared) IN Stay(p, e.pc, e.S)
    /\ UNCHANGED <<transport, mem, client, results, outcomes>>

\* performRequest after its socket event: runningRequest is false again.
Released(S) == [S EXCEPT !.runningRequest = FALSE]

\* SolarmanAPI2.readRegisters: the request of one batch ends (data that
\* unwraps, data that does not, timeout, socket error); readBatch returns
\* its outputs or [], and the cycle goes on with the next batch, whose
\* performRequest starts in the same turn.
SolarmanBatchDone(p, outcome) ==
    /\ transport = "solarman"
    /\ pc[p] = "requesting"
    /\ CurIns(p).prim = "readRegisters"
    /\ LET batch == Len(outcomes[p]) + 1 IN
       /\ outcomes' = [outcomes EXCEPT ![p] = Append(@, outcome)]
       /\ results' = [results EXCEPT ![p] = IF outcome = "ok" THEN Append(@, batch) ELSE @]
       /\ IF batch < NumBatches
          THEN LET e == performRequestEnter(Released(Shared)) IN Stay(p, e.pc, e.S)
          ELSE Finish(p, "list", Released(Shared), readBuffer[p])
    /\ UNCHANGED <<transport, mem, client>>

\* SolarmanAPI2.writeRegisters / writeBufferRegister: performRequest never
\* throws (it returns undefined on every failure), so the write returns
\* true whatever the socket reported.
SolarmanWriteDone(p, outcome) ==
    /\ transport = "solarman"
    /\ pc[p] = "requesting"
    /\ CurIns(p).prim \in WritePrims
    /\ LET sent == IF CurIns(p).prim = "writeRegisters" THEN values[p] ELSE BufferToWrite(p)
       IN /\ mem' = IF outcome = "ok" THEN WriteMem(mem, CurIns(p).reg.address, sent) ELSE mem
          /\ Finish(p, "true", Released(Shared), readBuffer[p])
    /\ outcomes' = [outcomes EXCEPT ![p] = Append(@, outcome)]
    /\ UNCHANGED <<transport, client, results>>

\* SolarmanAPI2.readAddressWithoutConversion: a buffer when the request
\* returned data that parses to one register, undefined otherwise.
SolarmanReadDone(p, outcome) ==
    /\ transport = "solarman"
    /\ pc[p] = "requesting"
    /\ CurIns(p).prim = "readAddressWithoutConversion"
    /\ IF outcome = "ok"
       THEN Finish(p, "buffer", Released(Shared), mem[CurIns(p).reg.address])
       ELSE Finish(p, "undefined", Released(Shared), readBuffer[p])
    /\ outcomes' = [outcomes EXCEPT ![p] = Append(@, outcome)]
    /\ UNCHANGED <<transport, mem, client, results>>

\* ------------------------------------------------------ specifications
InitInvocations(n, vals) ==
    /\ queue = <<>>
    /\ busy = FALSE
    /\ detached = 0
    /\ runningRequest = FALSE
    /\ isRunningAction = FALSE
    /\ mem = [a \in Addresses |-> 0]
    /\ pc = [p \in 1..n |-> "idle"]
    /\ op = [p \in 1..n |-> "none"]
    /\ register = [p \in 1..n |-> NoRegister]
    /\ values = vals
    /\ bitIndex = [p \in 1..n |-> 0]
    /\ step = [p \in 1..n |-> 0]
    /\ client = [p \in 1..n |-> "none"]
    /\ readBuffer = [p \in 1..n |-> 0]
    /\ results = [p \in 1..n |-> <<>>]
    /\ trace = [p \in 1..n |-> <<>>]
    /\ outcomes = [p \in 1..n |-> <<>>]
    /\ ret = [p \in 1..n |-> "none"]

\* An API instance used without a BaseDevice: there is no device state.
NoDevice ==
    /\ now = 0
    /\ lastSuccessfullRead = <<>>
    /\ isInInvalidState = <<>>
    /\ triggered = <<>>
    /\ baseRunningRequest = FALSE
    /\ runningRequestCount = 0
    /\ readRegisterTimeout = "none"
    /\ isStopping = FALSE
    /\ api = <<>>
    /\ batteryRunningRequest = FALSE
    /\ device = <<>>
    /\ cursor = <<>>
    /\ handled = <<>>

InitWith(n, vals) == InitInvocations(n, vals) /\ NoDevice

\* n invocations to come, none made yet.
InitCommon(n) == InitWith(n, [p \in 1..n |-> <<>>])

InitModbus == transport = "modbus" /\ InitCommon(NumCalls)
InitSolarman == transport = "solarman" /\ InitCommon(NumCalls)

\* n callers of one ModbusAPI2 instance.
ModbusCallers(n) ==
    \/ \E p \in 1..n :
        \/ CallReadRegisters(p)
        \/ CallReadAddressWithoutConversion(p)
        \/ CallWriteRegisters(p)
        \/ CallWriteBufferRegister(p)
        \/ CallWriteBitsToRegister(p)
        \/ QueueAdmit(p)
        \/ \E o \in ConnectOutcomes : ConnectDone(p, o)
        \/ \E o \in ModbusOutcomes : ModbusBatchDone(p, o)
        \/ \E o \in ModbusOutcomes : ModbusWriteDone(p, o)
        \/ \E o \in ModbusOutcomes : ModbusReadDone(p, o)
    \/ DetachedAdmit

NextModbus ==
    \/ ModbusCallers(NumCalls)
    \/ \E p \in 1..NumCalls : CallWriteBufferRegisterReadOnly(p)
SpecModbus == InitModbus /\ [][NextModbus]_vars

\* n callers of one SolarmanAPI2 instance.  WaitInQueueExit is no step of
\* it: no code of SolarmanAPI2 sets busy back to false, so the loop of
\* waitInQueue, once entered, is never left.
SolarmanCallers(n) ==
    \E p \in 1..n :
        \/ CallReadRegisters(p)
        \/ CallReadAddressWithoutConversion(p)
        \/ CallWriteRegisters(p)
        \/ CallWriteBufferRegister(p)
        \/ CallWriteBitsToRegister(p)
        \/ PerformRequestExit(p)
        \/ \E o \in SolarmanOutcomes : SolarmanBatchDone(p, o)
        \/ \E o \in SolarmanOutcomes : SolarmanWriteDone(p, o)
        \/ \E o \in SolarmanOutcomes : SolarmanReadDone(p, o)

NextSolarman == SolarmanCallers(NumCalls)
SpecSolarman == InitSolarman /\ [][NextSolarman]_vars

\* Callers of either transport.
Transports == {"modbus", "solarman"}
InitApi == transport \in Transports /\ InitCommon(ApiCalls)
NextApi == ModbusCallers(ApiCalls) \/ SolarmanCallers(ApiCalls)
SpecApi == InitApi /\ [][NextApi]_vars

\* The same callers with the transport fixed.
InitApiModbus == transport = "modbus" /\ InitCommon(ApiCalls)
SpecApiModbus == InitApiModbus /\ [][ModbusCallers(ApiCalls)]_vars
InitApiSolarman == transport = "solarman" /\ InitCommon(ApiCalls)
SpecApiSolarman == InitApiSolarman /\ [][SolarmanCallers(ApiCalls)]_vars

\* The socket of the request of p is closed by the peer before any data
\* came: of the handlers performRequestQueued registers (data, timeout,
\* error) none runs, so its promise stays pending and performRequest stays
\* at its await with runningRequest true.
SolarmanPeerClosed(p) ==
    /\ transport = "solarman"
    /\ pc[p] = "requesting"
    /\ Stay(p, "unanswered", Shared)
    /\ UNCHANGED <<transport, mem, client, results, outcomes>>

\* Callers of one SolarmanAPI2 instance with every way a socket can end;
\* each request that is out gets one of its socket events, and the polls
\* of performRequest go on.
NextSocket ==
    \/ SolarmanCallers(ApiCalls)
    \/ \E p \in 1..ApiCalls : SolarmanPeerClosed(p)
FairSocket ==
    \A p \in 1..ApiCalls :
        /\ WF_vars(PerformRequestExit(p))
        /\ WF_vars(\E o \in SolarmanOutcomes :
                      \/ SolarmanBatchDone(p, o)
                      \/ SolarmanWriteDone(p, o)
                      \/ SolarmanReadDone(p, o))
FairSpecSocket == InitApiSolarman /\ [][NextSocket]_vars /\ FairSocket

\* A ModbusDevice of the Deye model on a ModbusAPI2 instance: device actions
\* (one at a time, callAction) next to the read cycles of the poll timer.
NextDeye ==
    \/ \E p \in 1..ApiCalls :
        \/ CallDeviceAction(p)
        \/ CallReadRegisters(p)
        \/ QueueAdmit(p)
        \/ DelayElapsed(p)
        \/ \E o \in ConnectOutcomes : ConnectDone(p, o)
        \/ \E o \in ModbusOutcomes : ModbusBatchDone(p, o)
        \/ \E o \in ModbusOutcomes : ModbusWriteDone(p, o)
        \/ \E o \in ModbusOutcomes : ModbusReadDone(p, o)
    \/ DetachedAdmit

InitDeye == transport = "modbus" /\ InitCommon(ApiCalls)
SpecDeye == InitDeye /\ [][NextDeye]_vars

\* ModbusDevice.callAction runs one of the two timeslot actions.
CallTimeslotAction(p) ==
    /\ ~isRunningAction
    /\ \/ Invoke(p, "setAllTimeslotParameters", NoRegister, <<Num(1), Num(1)>>, 0)
       \/ \E r \in TimeslotRegisters :
             Invoke(p, "setTimeOfUseTimeslotParameters", r, <<Num(1)>>, 0)

\* The timeslot actions of the Deye model next to the read cycles of the
\* poll timer.
NextTimeslots ==
    \/ \E p \in 1..ApiCalls :
        \/ CallTimeslotAction(p)
        \/ CallReadRegisters(p)
        \/ QueueAdmit(p)
        \/ DelayElapsed(p)
        \/ \E o \in ConnectOutcomes : ConnectDone(p, o)
        \/ \E o \in ModbusOutcomes : ModbusBatchDone(p, o)
        \/ \E o \in ModbusOutcomes : ModbusWriteDone(p, o)
    \/ DetachedAdmit
InitTimeslots == transport = "modbus" /\ InitCommon(ApiCalls)
SpecTimeslots == InitTimeslots /\ [][NextTimeslots]_vars

\* ModbusDevice.callAction with an action name that supportedFlows.actions
\* does not hold: 'Unsupported action' is logged and the call returns,
\* before the loop on isRunningAction.
CallUnsupportedAction(p) ==
    /\ pc[p] = "idle"
    /\ \A q \in Calls : q < p => pc[q] # "idle"
    /\ op' = [op EXCEPT ![p] = "unsupported"]
    /\ pc' = [pc EXCEPT ![p] = "done"]
    /\ ret' = [ret EXCEPT ![p] = "void"]
    /\ UNCHANGED <<transport, shared, isRunningAction, mem, register, values, bitIndex, step,
                   client, readBuffer, results, trace, outcomes, devVars>>

\* The flow cards of one ModbusDevice of the Deye model on a ModbusAPI2
\* instance: actions the model supports and names it does not.
NextActions ==
    \E p \in 1..ApiCalls :
        \/ CallDeviceAction(p)
        \/ CallUnsupportedAction(p)
        \/ DelayElapsed(p)
        \/ \E o \in ConnectOutcomes : ConnectDone(p, o)
        \/ \E o \in ModbusOutcomes : ModbusWriteDone(p, o)
        \/ \E o \in ModbusOutcomes : ModbusReadDone(p, o)
InitActions == transport = "modbus" /\ InitCommon(ApiCalls)
SpecActions == InitActions /\ [][NextActions]_vars

\* The day arguments of setTimeOfUseDayEnabled: the first and the last day
\* of the week and numbers outside 1..7, one of them beyond the 16 bits.
Days == {0, 1, 7, 8, 17}
\* ModbusDevice.callAction runs setTimeOfUseDayEnabled with enabled =
\* 'true' and a day: bitIndex = Number(day).
CallSetTimeOfUseDayEnabled(p) ==
    /\ ~isRunningAction
    /\ \E day \in Days : Invoke(p, "setTimeOfUseDayEnabled", NoRegister, <<Num(day)>>, day)

\* setTimeOfUseDayEnabled next to the read cycles of the poll timer.
NextDays ==
    \E p \in 1..ApiCalls :
        \/ CallSetTimeOfUseDayEnabled(p)
        \/ CallReadRegisters(p)
        \/ QueueAdmit(p)
        \/ \E o \in ConnectOutcomes : ConnectDone(p, o)
        \/ \E o \in ModbusOutcomes : ModbusBatchDone(p, o)
        \/ \E o \in ModbusOutcomes : ModbusWriteDone(p, o)
        \/ \E o \in ModbusOutcomes : ModbusReadDone(p, o)
InitDays == transport = "modbus" /\ InitCommon(ApiCalls)
SpecDays == InitDays /\ [][NextDays]_vars

\* ------------------------------------------------- the CommandQueue alone
\* Clients of one CommandQueue: each calls wait with a command name and the
\* maxOccurences that goes with it, holds the queue when wait returns true
\* and releases it with setBusy(false); setBusy is public and may be called
\* by anyone.
MaxOccurencesOf(command) ==
    IF command = "readRegisters" THEN ReadMaxOccurences ELSE WriteMaxOccurences

QueueCommands == {"readRegisters", "writeBufferRegister"}

\* Callers suspended in the loop of wait(command, ...).
Blocked(command) == {p \in Calls : pc[p] = "queued" /\ op[p] = command}

\* await queue.wait(command, maxOccurences) up to its first suspension
QueueWait(p, command) ==
    /\ pc[p] = "idle"
    /\ LET w == wait(Shared, command, MaxOccurencesOf(command)) IN
       /\ queue' = w.S.queue
       /\ busy' = w.S.busy
       /\ op' = [op EXCEPT ![p] = command]
       /\ pc' = [pc EXCEPT ![p] = CASE w.result = "refused" -> "idle"
                                    [] w.result = "blocked" -> "queued"
                                    [] OTHER -> "holding"]
       /\ ret' = [ret EXCEPT ![p] = CASE w.result = "refused" -> "false"
                                      [] w.result = "blocked" -> "none"
                                      [] OTHER -> "true"]
    /\ UNCHANGED <<transport, detached, runningRequest, isRunningAction, mem, register,
                   values, bitIndex, step, client, readBuffer, results, trace, outcomes,
                   devVars>>

\* the loop of wait finds busy false: the entry is deleted, wait returns true
QueueResume(p) ==
    /\ pc[p] = "queued"
    /\ ~busy
    /\ LET S1 == waitResume(Shared, op[p]) IN
       /\ queue' = S1.queue
       /\ busy' = S1.busy
    /\ pc' = [pc EXCEPT ![p] = "holding"]
    /\ ret' = [ret EXCEPT ![p] = "true"]
    /\ UNCHANGED <<transport, detached, runningRequest, isRunningAction, mem, op, register,
                   values, bitIndex, step, client, readBuffer, results, trace, outcomes,
                   devVars>>

\* the holder is done: setBusy(false)
QueueRelease(p) ==
    /\ pc[p] = "holding"
    /\ busy' = setBusy(Shared, FALSE).busy
    /\ pc' = [pc EXCEPT ![p] = "idle"]
    /\ UNCHANGED <<transport, queue, detached, runningRequest, isRunningAction, mem, op,
                   register, values, bitIndex, step, client, readBuffer, results, trace,
                   outcomes, ret, devVars>>

\* setBusy(value) called from outside the protocol
QueueSetBusy(value) ==
    /\ busy # value
    /\ busy' = setBusy(Shared, value).busy
    /\ UNCHANGED <<transport, queue, detached, runningRequest, isRunningAction, mem, locals,
                   devVars>>

NextQueue ==
    \/ \E p \in 1..NumCalls :
        \/ \E command \in QueueCommands : QueueWait(p, command)
        \/ QueueResume(p)
        \/ QueueRelease(p)
    \/ \E value \in BOOLEAN : QueueSetBusy(value)

SpecQueue == InitModbus /\ [][NextQueue]_vars

\* ------------------------------------------------------- BaseDevice
\* The inverter device polls its API instance by timer and hands
\* every result list to its own handleResults and, from there, to the
\* handleResults of the linked battery device.  Slot PollSlot holds the
\* read cycle of the inverter device (one after the other), the other
\* slots hold what runs beside it: the handleResults executions of the
\* battery device and onSettings.

\* 3 minutes without a successful read mark the device as unavailable.
DEFAULT_UNAVAILABLE_TIMEOUT == 180
\* The clock advances in steps of TickSeconds up to MaxTime.
TickSeconds == 240
MaxTime == 240

PollSlot == 1
SideSlots == 2..NumCalls
FreeSlot(q) == q \in SideSlots /\ pc[q] = "idle"
\* the slot a new execution takes: the first free one
NextFreeSlot(q) == FreeSlot(q) /\ \A r \in SideSlots : r < q => ~FreeSlot(r)

\* One RegisterOutput as handleResults sees it: the capability of its
\* parseConfiguration, the device type of its register, and whether the
\* calculated value passes parseConfiguration.validateValue.
RegisterValue(cap, type, valid) == [capability |-> cap, deviceType |-> type, valid |-> valid]
DecodedValues ==
    {RegisterValue("measure_power", "SOLAR", v) : v \in BOOLEAN}
    \cup {RegisterValue("measure_battery", "BATTERY", v) : v \in BOOLEAN}
\* The result lists api.readRegisters can return when the batches of res
\* were answered: one RegisterOutput per answered batch.
RegisterValuesOf(res) == [1..Len(res) -> DecodedValues]

\* BaseDevice.isAvailable at time t
isAvailable(last, t) == IF last # NoRead THEN t - last < DEFAULT_UNAVAILABLE_TIMEOUT ELSE FALSE

\* The state of device d a handleResults execution works on.
DeviceState(d, hp) == [inv |-> isInInvalidState[d], trig |-> triggered[d], handled |-> hp]

\* BaseDevice.handleResults of device d on the list vals, from the value
\* at index i to its next suspension: "trigger" (await c.trigger), "change"
\* (await capabilityChange), "return" (the return after an invalid value
\* whose flag was set already) or "tail" (the loop is over).
RECURSIVE HandleRun(_, _, _, _)
HandleRun(d, vals, i, D) ==
    IF i > Len(vals) THEN [D |-> D, pc |-> "tail", cursor |-> i]
    ELSE LET v == vals[i] IN
         IF v.deviceType # DeviceTypeOf(d) THEN HandleRun(d, vals, i + 1, D)
         ELSE IF ~v.valid
         THEN IF v.capability \in D.inv
              THEN [D |-> D, pc |-> "return", cursor |-> i]
              ELSE [D |-> [D EXCEPT !.trig[v.capability] = @ + 1],
                    pc |-> "trigger", cursor |-> i]
         ELSE [D |-> [D EXCEPT !.inv = @ \ {v.capability},
                               !.trig[v.capability] = 0,
                               !.handled.applied = Append(@, i)],
               pc |-> "change", cursor |-> i]

\* The lines of handleResults after the loop: the inverter device calls
\* the battery device's handleResults (spawn), the device takes the time
\* as lastSuccessfullRead (stamp) and awaits capabilityChange of date.record.
HandleTail(d, H) ==
    IF H.pc # "tail"
    THEN [D |-> H.D, pc |-> H.pc, cursor |-> H.cursor, spawn |-> FALSE, stamp |-> FALSE]
    ELSE [D |-> [H.D EXCEPT !.handled.forwarded = (d = "inverter"), !.handled.stamped = TRUE],
          pc |-> "record", cursor |-> H.cursor, spawn |-> (d = "inverter"), stamp |-> TRUE]

\* handleResults of d from index i to its next suspension or return
HandleFrom(d, vals, i, hp) == HandleTail(d, HandleRun(d, vals, i, DeviceState(d, hp)))

\* handleResults of d when the promise it awaited at pc[p] has settled
HandleAfter(p) ==
    LET d == device[p] IN
    CASE pc[p] = "trigger" ->
            [D |-> [DeviceState(d, handled[p]) EXCEPT
                        !.inv = @ \cup {values[p][cursor[p]].capability}],
             pc |-> "return", cursor |-> cursor[p], spawn |-> FALSE, stamp |-> FALSE]
      [] pc[p] = "change" -> HandleFrom(d, values[p], cursor[p] + 1, handled[p])
      [] OTHER -> [D |-> DeviceState(d, handled[p]), pc |-> "return", cursor |-> cursor[p],
                   spawn |-> FALSE, stamp |-> FALSE]

\* handleResults has returned
Back(T) == T.pc = "return"
\* Where a side slot is after the turn T: free again when its execution has
\* returned (its locals are gone).
SidePc(T) == IF Back(T) THEN "idle" ELSE T.pc

\* The finally block of BaseDevice.readRegisters: the timer it leaves.
NextTimeout(last) ==
    IF isStopping THEN readRegisterTimeout
    ELSE IF isAvailable(last, now) THEN "refresh" ELSE "retry"

\* The inverter's handleResults execution in slot p has reached T (a result
\* of HandleFrom / HandleAfter) on the list vals: the device state follows,
\* the forwarded call starts the battery device's handleResults in the
\* first free slot, and when handleResults has returned the finally block
\* of readRegisters runs.
InverterTurn(p, vals, T) ==
    LET last == IF T.stamp THEN now ELSE lastSuccessfullRead["inverter"]
        back == Back(T)
        B == HandleFrom("battery", vals, 1, NotHandled)
        mine == [isInInvalidState EXCEPT !["inverter"] = T.D.inv]
        mineT == [triggered EXCEPT !["inverter"] = T.D.trig]
    IN  /\ baseRunningRequest' = IF back THEN FALSE ELSE baseRunningRequest
        /\ runningRequestCount' = IF back THEN runningRequestCount - 1 ELSE runningRequestCount
        /\ readRegisterTimeout' = IF back THEN NextTimeout(last) ELSE readRegisterTimeout
        /\ IF T.spawn
           THEN \E q \in SideSlots :
                /\ NextFreeSlot(q)
                /\ pc' = [pc EXCEPT ![p] = T.pc, ![q] = SidePc(B)]
                /\ op' = [op EXCEPT ![q] = IF Back(B) THEN "none" ELSE "handleResults"]
                /\ device' = [device EXCEPT ![q] = IF Back(B) THEN "none" ELSE "battery"]
                /\ values' = [values EXCEPT ![p] = vals, ![q] = IF Back(B) THEN <<>> ELSE vals]
                /\ cursor' = [cursor EXCEPT ![p] = T.cursor,
                                            ![q] = IF Back(B) THEN 0 ELSE B.cursor]
                /\ handled' = [handled EXCEPT
                                   ![p] = T.D.handled,
                                   ![q] = IF Back(B) THEN NotHandled ELSE B.D.handled]
                /\ ret' = [ret EXCEPT ![p] = "none"]
                /\ isInInvalidState' = [mine EXCEPT !["battery"] = B.D.inv]
                /\ triggered' = [mineT EXCEPT !["battery"] = B.D.trig]
                /\ lastSuccessfullRead' =
                       [lastSuccessfullRead EXCEPT
                            !["inverter"] = last,
                            !["battery"] = IF B.stamp THEN now ELSE @]
           ELSE /\ pc' = [pc EXCEPT ![p] = IF back THEN "done" ELSE T.pc]
                /\ values' = [values EXCEPT ![p] = vals]
                /\ cursor' = [cursor EXCEPT ![p] = T.cursor]
                /\ handled' = [handled EXCEPT ![p] = T.D.handled]
                /\ ret' = [ret EXCEPT ![p] = IF back THEN "void" ELSE "none"]
                /\ isInInvalidState' = mine
                /\ triggered' = mineT
                /\ lastSuccessfullRead' = [lastSuccessfullRead EXCEPT !["inverter"] = last]
                /\ UNCHANGED <<op, device>>
        /\ UNCHANGED <<now, isStopping, roleVars>>

\* BaseDevice.readRegisters, called by its timer (or by onInit), up to its
\* first suspension.
PollCall(p) ==
    /\ p = PollSlot
    /\ readRegisterTimeout # "none"
    /\ pc[p] \in {"idle", "done"}
    /\ IF baseRunningRequest /\ runningRequestCount > 2
       THEN /\ readRegisterTimeout' = "none"
            /\ UNCHANGED <<shared, isRunningAction, locals, baseRunningRequest,
                           runningRequestCount, device, cursor, handled>>
       ELSE /\ runningRequestCount' = runningRequestCount + 1
            /\ readRegisterTimeout' = "none"
            /\ device' = [device EXCEPT ![p] = "inverter"]
            /\ cursor' = [cursor EXCEPT ![p] = 0]
            /\ handled' = [handled EXCEPT ![p] = NotHandled]
            /\ results' = [results EXCEPT ![p] = <<>>]
            /\ outcomes' = [outcomes EXCEPT ![p] = <<>>]
            /\ UNCHANGED client
            /\ LET c == [op |-> "readRegisters", register |-> NoRegister,
                         values |-> <<>>, bitIndex |-> 0]
               IN IF baseRunningRequest
                  THEN /\ ApplyFrame(p, c, [S |-> Shared, pc |-> "devwait", step |-> 1,
                                            ret |-> "none", trace |-> <<>>], 0)
                       /\ UNCHANGED baseRunningRequest
                  ELSE /\ ApplyFrame(p, c, StartAt(c, 1, Shared, <<>>), 0)
                       /\ baseRunningRequest' = TRUE
    /\ UNCHANGED <<transport, mem, now, lastSuccessfullRead, isInInvalidState, triggered,
                   isStopping, roleVars>>

\* api.readRegisters of the inverter's read cycle returns the outputs of
\* the batches res, leaving the API instance in state S: handleResults runs
\* on the list in the same turn.
PollReturned(p, S, res) ==
    /\ queue' = S.queue
    /\ busy' = S.busy
    /\ detached' = S.detached
    /\ runningRequest' = S.runningRequest
    /\ trace' = [trace EXCEPT ![p] = Append(@, "list")]
    /\ \E vals \in RegisterValuesOf(res) :
          InverterTurn(p, vals, HandleFrom("inverter", vals, 1, NotHandled))
    /\ UNCHANGED <<isRunningAction, register, bitIndex, step, readBuffer>>

\* ModbusAPI2.connect of the inverter's read cycle resolves or rejects; a
\* rejection is caught inside readRegisters, which returns its empty list.
PollConnectDone(p, outcome) ==
    /\ p = PollSlot
    /\ transport = "modbus"
    /\ pc[p] = "connecting"
    /\ device[p] = "inverter"
    /\ IF outcome = "ok"
       THEN /\ client' = [client EXCEPT ![p] = "open"]
            /\ Stay(p, "requesting", Shared)
       ELSE /\ client' = client
            /\ PollReturned(p, setBusy(Shared, FALSE), results[p])
    /\ outcomes' = [outcomes EXCEPT ![p] = IF outcome = "ok" THEN @ ELSE Append(@, "noconnect")]
    /\ UNCHANGED <<transport, mem, results>>

\* The request of a batch of the inverter's read cycle ends; after the
\* last batch api.readRegisters returns.
PollBatchDone(p, outcome) ==
    /\ p = PollSlot
    /\ pc[p] = "requesting"
    /\ device[p] = "inverter"
    /\ transport = "modbus" => outcome \in ModbusOutcomes
    /\ LET batch == Len(outcomes[p]) + 1
           res == IF outcome = "ok" THEN Append(results[p], batch) ELSE results[p]
       IN /\ outcomes' = [outcomes EXCEPT ![p] = Append(@, outcome)]
          /\ results' = [results EXCEPT ![p] = res]
          /\ IF transport = "modbus"
             THEN IF batch < NumBatches
                  THEN Stay(p, "requesting", Shared) /\ client' = client
                  ELSE /\ client' = [client EXCEPT ![p] = "closed"]
                       /\ PollReturned(p, setBusy(Shared, FALSE), res)
             ELSE /\ client' = client
                  /\ IF batch < NumBatches
                     THEN LET e == performRequestEnter(Released(Shared)) IN Stay(p, e.pc, e.S)
                     ELSE PollReturned(p, Released(Shared), res)
    /\ UNCHANGED <<transport, mem>>

\* A promise awaited by the inverter's handleResults has settled.
PollHandleResume(p) ==
    /\ p = PollSlot
    /\ device[p] = "inverter"
    /\ pc[p] \in {"trigger", "change", "record"}
    /\ InverterTurn(p, values[p], HandleAfter(p))
    /\ UNCHANGED <<transport, shared, isRunningAction, mem, register, bitIndex, step, client,
                   readBuffer, results, trace, outcomes, roleVars>>

\* A promise awaited by a handleResults execution of the battery device has
\* settled.
BatteryHandleResume(q) ==
    /\ q \in SideSlots
    /\ device[q] = "battery"
    /\ pc[q] \in {"trigger", "change", "record"}
    /\ LET T == HandleAfter(q) IN
       /\ pc' = [pc EXCEPT ![q] = SidePc(T)]
       /\ op' = [op EXCEPT ![q] = IF Back(T) THEN "none" ELSE @]
       /\ device' = [device EXCEPT ![q] = IF Back(T) THEN "none" ELSE @]
       /\ values' = [values EXCEPT ![q] = IF Back(T) THEN <<>> ELSE @]
       /\ cursor' = [cursor EXCEPT ![q] = IF Back(T) THEN 0 ELSE T.cursor]
       /\ handled' = [handled EXCEPT ![q] = IF Back(T) THEN NotHandled ELSE T.D.handled]
       /\ isInInvalidState' = [isInInvalidState EXCEPT !["battery"] = T.D.inv]
       /\ triggered' = [triggered EXCEPT !["battery"] = T.D.trig]
       /\ lastSuccessfullRead' =
              [lastSuccessfullRead EXCEPT !["battery"] = IF T.stamp THEN now ELSE @]
    /\ UNCHANGED <<transport, shared, isRunningAction, mem, register, bitIndex, step, client,
                   readBuffer, results, trace, outcomes, ret, now, baseRunningRequest,
                   runningRequestCount, readRegisterTimeout, isStopping, roleVars>>

\* BaseDevice.onSettings with enabled = false, up to `await
\* this.setUnavailable(...)`: the pending timer is cleared.
OnSettingsDisable(q) ==
    /\ NextFreeSlot(q)
    /\ ~isStopping
    /\ \A r \in SideSlots : ~(op[r] = "onSettings" /\ pc[r] = "setUnavailable")
    /\ readRegisterTimeout' = "none"
    /\ pc' = [pc EXCEPT ![q] = "setUnavailable"]
    /\ op' = [op EXCEPT ![q] = "onSettings"]
    /\ device' = [device EXCEPT ![q] = "inverter"]
    /\ UNCHANGED <<transport, shared, isRunningAction, mem, register, values, bitIndex, step,
                   client, readBuffer, results, trace, outcomes, ret, now,
                   lastSuccessfullRead, isInInvalidState, triggered, baseRunningRequest,
                   runningRequestCount, isStopping, cursor, handled, roleVars>>

\* ... and after it: isStopping is set.
OnSettingsDisabled(q) ==
    /\ q \in SideSlots
    /\ op[q] = "onSettings"
    /\ pc[q] = "setUnavailable"
    /\ isStopping' = TRUE
    /\ pc' = [pc EXCEPT ![q] = "idle"]
    /\ op' = [op EXCEPT ![q] = "none"]
    /\ device' = [device EXCEPT ![q] = "none"]
    /\ UNCHANGED <<transport, shared, isRunningAction, mem, register, values, bitIndex, step,
                   client, readBuffer, results, trace, outcomes, ret, now,
                   lastSuccessfullRead, isInInvalidState, triggered, baseRunningRequest,
                   runningRequestCount, readRegisterTimeout, cursor, handled, roleVars>>

\* Time passes.
Tick ==
    /\ now + TickSeconds <= MaxTime
    /\ now' = now + TickSeconds
    /\ UNCHANGED <<transport, shared, isRunningAction, mem, locals, lastSuccessfullRead,
                   isInInvalidState, triggered, baseRunningRequest, runningRequestCount,
                   readRegisterTimeout, isStopping, device, cursor, handled, roleVars>>

\* The inverter device and its battery device after onInit, before the
\* first read: the call of readRegisters by onInit is pending.
InitDevice ==
    /\ transport \in Transports
    /\ InitInvocations(NumCalls, [p \in 1..NumCalls |-> <<>>])
    /\ now = 0
    /\ lastSuccessfullRead = [d \in Devices |-> NoRead]
    /\ isInInvalidState = [d \in Devices |-> {}]
    /\ triggered = [d \in Devices |-> [c \in Capabilities |-> 0]]
    /\ baseRunningRequest = FALSE
    /\ runningRequestCount = 0
    /\ readRegisterTimeout = "init"
    /\ isStopping = FALSE
    /\ api = [d \in Devices |-> d = "inverter"]
    /\ batteryRunningRequest = FALSE
    /\ device = [p \in 1..NumCalls |-> "none"]
    /\ cursor = [p \in 1..NumCalls |-> 0]
    /\ handled = [p \in 1..NumCalls |-> NotHandled]
NextDevice ==
    \/ \E p \in 1..NumCalls :
        \/ PollCall(p)
        \/ \E o \in ConnectOutcomes : PollConnectDone(p, o)
        \/ \E o \in SolarmanOutcomes : PollBatchDone(p, o)
        \/ PollHandleResume(p)
        \/ BatteryHandleResume(p)
        \/ OnSettingsDisable(p)
        \/ OnSettingsDisabled(p)
    \/ Tick
SpecDevice == InitDevice /\ [][NextDevice]_vars

\* What the scheduling guarantees: a connect or request that is outstanding
\* is answered (at the latest by its timeout), an awaited promise of the
\* Homey SDK settles, a pending timer fires.
FairDevice ==
    /\ WF_vars(PollCall(PollSlot))
    /\ WF_vars(\E o \in ConnectOutcomes : PollConnectDone(PollSlot, o))
    /\ WF_vars(\E o \in SolarmanOutcomes : PollBatchDone(PollSlot, o))
    /\ WF_vars(PollHandleResume(PollSlot))
    /\ \A q \in SideSlots : WF_vars(BatteryHandleResume(q))
    /\ \A q \in SideSlots : WF_vars(OnSettingsDisabled(q))
FairSpecDevice == SpecDevice /\ FairDevice

\* Read cycles only, called by enough callers of one ModbusAPI2 instance
\* for the queue to refuse one: a cycle in flight, ReadMaxOccurences
\* waiting, and one more.
Readers == ReadMaxOccurences + 2
InitReaders == transport = "modbus" /\ InitCommon(Readers)
NextReaders ==
    \E p \in 1..Readers :
        \/ CallReadRegisters(p)
        \/ QueueAdmit(p)
        \/ \E o \in ConnectOutcomes : ConnectDone(p, o)
        \/ \E o \in ModbusOutcomes : ModbusBatchDone(p, o)
SpecReaders == InitReaders /\ [][NextReaders]_vars

\* Read cycles and writeRegister calls of enough callers of one ModbusAPI2
\* instance for the queue to refuse a read cycle.
CallWriteRegister(p) == Invoke(p, "writeRegisters", RWRegister, <<Num(1)>>, 0)
NextWaits ==
    \/ \E p \in 1..Readers :
        \/ CallReadRegisters(p)
        \/ CallWriteRegister(p)
        \/ QueueAdmit(p)
        \/ \E o \in ConnectOutcomes : ConnectDone(p, o)
        \/ \E o \in ModbusOutcomes : ModbusBatchDone(p, o)
        \/ \E o \in ModbusOutcomes : ModbusWriteDone(p, o)
    \/ DetachedAdmit
InitWaits == transport = "modbus" /\ InitCommon(Readers)
SpecWaits == InitWaits /\ [][NextWaits]_vars

\* ---------------------------------------------------------- readBatch
\* What readBatch makes of the answer to the request of one batch.  A
\* register of the batch is described by what device.converter and
\* validateValue do with its part of the answer (a value that is valid, a
\* value that is invalid, or the conversion throws) and by the number of
\* its parseConfigurations.
MaxBatchLen == 3
MaxConfigs == 2
Conversions == {"valid", "invalid", "throws"}
BatchRegisters == [decoded : Conversions, parseConfigurations : 1..MaxConfigs]
Batches == UNION {[1..n -> BatchRegisters] : n \in 1..MaxBatchLen}

\* The RegisterOutputs of register i: one per parseConfiguration.
OutputsOf(batch, i) ==
    [k \in 1..batch[i].parseConfigurations |-> [register |-> i, parseConfiguration |-> k]]

\* ModbusAPI2.readBatch: one try around the whole loop, so the exception
\* of a conversion ends the loop and the outputs pushed so far are returned.
RECURSIVE modbusReadBatch(_, _, _)
modbusReadBatch(batch, i, result) ==
    IF i > Len(batch) THEN result
    ELSE CASE batch[i].decoded = "throws" -> result
           [] batch[i].decoded = "invalid" -> modbusReadBatch(batch, i + 1, result)
           [] OTHER -> modbusReadBatch(batch, i + 1, result \o OutputsOf(batch, i))

\* SolarmanAPI2.readBatch: a try around each register, so the exception
\* of a conversion skips that register only.
RECURSIVE solarmanReadBatch(_, _, _)
solarmanReadBatch(batch, i, result) ==
    IF i > Len(batch) THEN result
    ELSE CASE batch[i].decoded = "valid" ->
                solarmanReadBatch(batch, i + 1, result \o OutputsOf(batch, i))
           [] OTHER -> solarmanReadBatch(batch, i + 1, result)

readBatch(batch) ==
    IF transport = "modbus" THEN modbusReadBatch(batch, 1, <<>>)
    ELSE solarmanReadBatch(batch, 1, <<>>)

\* The request of the batch values[p] is answered and readBatch returns.
ReadBatch(p) ==
    /\ pc[p] = "idle"
    /\ pc' = [pc EXCEPT ![p] = "done"]
    /\ op' = [op EXCEPT ![p] = "readBatch"]
    /\ results' = [results EXCEPT ![p] = readBatch(values[p])]
    /\ ret' = [ret EXCEPT ![p] = "list"]
    /\ UNCHANGED <<transport, shared, isRunningAction, mem, register, values, bitIndex, step,
                   client, readBuffer, trace, outcomes, devVars>>

InitBatch == transport \in Transports /\ \E b \in Batches : InitWith(1, <<b>>)
NextBatch == \E p \in 1..1 : ReadBatch(p)
SpecBatch == InitBatch /\ [][NextBatch]_vars

\* ------------------------------------------------- readBatch: wire layout
\* The request readBatch sends for a batch and the part of the answer it
\* hands to device.converter for each register.  Here a register of the
\* batch is its address and its length in words.
MaxAddress == 4
MaxLength == 2
WireRegisters == [address : 0..MaxAddress, length : 1..MaxLength]
\* The batches createRegisterBatches makes: registers in address order that
\* do not overlap; a register may start after the end of the one before it.
WireBatches ==
    {b \in UNION {[1..n -> WireRegisters] : n \in 1..MaxBatchLen} :
        \A i \in 1..(Len(b) - 1) : b[i].address + b[i].length <= b[i + 1].address}

Min(a, b) == IF a < b THEN a ELSE b

\* The word count of the read request: `length` of ModbusAPI2.readBatch
\* and of SolarmanAPI2.readBatch.
modbusReadLength(batch) ==
    IF Len(batch) > 1
    THEN batch[Len(batch)].address + batch[Len(batch)].length - batch[1].address
    ELSE batch[1].length
solarmanReadLength(batch) ==
    batch[Len(batch)].address + batch[Len(batch)].length - batch[1].address + 1
readLength(batch) ==
    IF transport = "modbus" THEN modbusReadLength(batch) ELSE solarmanReadLength(batch)

\* results.buffer.subarray(from, to) of a buffer of n bytes: the bytes
\* from..(to - 1), both ends cut to the buffer.
subarray(n, from, to) == [from |-> Min(from, n), to |-> Min(to, n)]

\* The loop of ModbusAPI2.readBatch over the batch: the bytes of the
\* n-byte answer handed to the converter for each register.  startOffset
\* advances by the byte length of each register.
RECURSIVE modbusBuffers(_, _, _, _)
modbusBuffers(batch, n, i, startOffset) ==
    IF i > Len(batch) THEN <<>>
    ELSE LET end == startOffset + batch[i].length * WordBytes
             buffer == IF Len(batch) > 1 THEN subarray(n, startOffset, end)
                       ELSE [from |-> 0, to |-> n]
         IN  <<buffer>> \o modbusBuffers(batch, n, i + 1, end)

\* readBatch on the batch values[p], answered with the words asked for:
\* outcomes[p] gets the request and the byte length of the answer,
\* results[p] the buffer of each register.  The buffers of SolarmanAPI2 come
\* from parseResponse and are left out.
ReadBatchWire(p) ==
    /\ pc[p] = "idle"
    /\ LET batch == values[p]
           length == readLength(batch)
       IN  /\ outcomes' = [outcomes EXCEPT ![p] =
                  <<[address |-> batch[1].address, length |-> length,
                     bytes |-> length * WordBytes]>>]
           /\ results' = [results EXCEPT ![p] =
                  IF transport = "modbus"
                  THEN modbusBuffers(batch, length * WordBytes, 1, 0)
                  ELSE <<>>]
    /\ pc' = [pc EXCEPT ![p] = "done"]
    /\ op' = [op EXCEPT ![p] = "readBatch"]
    /\ ret' = [ret EXCEPT ![p] = "list"]
    /\ UNCHANGED <<transport, shared, isRunningAction, mem, register, values, bitIndex, step,
                   client, readBuffer, trace, devVars>>

InitWire == transport \in Transports /\ \E b \in WireBatches : InitWith(1, <<b>>)
NextWire == \E p \in 1..1 : ReadBatchWire(p)
SpecWire == InitWire /\ [][NextWire]_vars

\* ------------------------------------------- Solarman request frames
\* The Modbus frames SolarmanAPI2 builds.  A Buffer is the sequence of its
\* bytes; byte k of the code is element k + 1.
RECURSIVE Xor(_, _)
Xor(a, b) ==
    IF a = 0 THEN b
    ELSE IF b = 0 THEN a
    ELSE ((a + b) % 2) + 2 * Xor(a \div 2, b \div 2)

\* CRC16 of Modbus (polynomial 0xA001, start value 0xFFFF): n shifts of
\* the register, and the register after the bytes of a buffer.
RECURSIVE crcShift(_, _)
crcShift(crc, n) ==
    IF n = 0 THEN crc
    ELSE crcShift(IF crc % 2 = 1 THEN Xor(crc \div 2, 40961) ELSE crc \div 2, n - 1)
RECURSIVE crcBytes(_, _)
crcBytes(crc, bytes) ==
    IF bytes = <<>> THEN crc
    ELSE LET next == crcShift(Xor(crc, Head(bytes)), 8)
         IN  IF next < 65536 THEN crcBytes(next, Tail(bytes))
             ELSE crcBytes(next % 65536, Tail(bytes))
calculateBufferCRC(bytes) == crcBytes(65535, bytes)

\* Buffer.alloc, writeUInt8, writeUInt16BE, writeUInt16LE, copy(target, at)
\* and subarray(0, -2).
alloc(n) == [i \in 1..n |-> 0]
writeUInt8(buffer, v, at) == [buffer EXCEPT ![at + 1] = v % 256]
writeUInt16BE(buffer, v, at) ==
    [buffer EXCEPT ![at + 1] = (v \div 256) % 256, ![at + 2] = v % 256]
writeUInt16LE(buffer, v, at) ==
    [buffer EXCEPT ![at + 1] = v % 256, ![at + 2] = (v \div 256) % 256]
copy(source, buffer, at) ==
    [i \in 1..Len(buffer) |->
        IF i > at /\ i <= at + Len(source) THEN source[i - at] ELSE buffer[i]]
withoutLastTwo(buffer) == SubSeq(buffer, 1, Len(buffer) - 2)

\* Byte length of a value of the data type, and the bytes of a value.
DataTypes == {"UINT16", "UINT32"}
lengthForDataType(dataType) == IF dataType = "UINT32" THEN 4 ELSE 2
bufferForDataType(dataType, v) ==
    IF dataType = "UINT32"
    THEN <<(v \div 16777216) % 256, (v \div 65536) % 256, (v \div 256) % 256, v % 256>>
    ELSE <<(v \div 256) % 256, v % 256>>

RECURSIVE concat(_, _)
concat(dataType, vals) ==
    IF vals = <<>> THEN <<>>
    ELSE bufferForDataType(dataType, Head(vals)) \o concat(dataType, Tail(vals))

\* Variant of createModbusFrame whose CRC is taken over the whole buffer;
\* C26_RequestFrameLayout tells it from the code.
createModbusFrameCrcOverAll(unitId, startRegister, length, command) ==
    LET codeLength == 6
        b1 == writeUInt8(alloc(codeLength + 2), unitId, 0)
        b2 == writeUInt8(b1, command, 1)
        b3 == writeUInt16BE(b2, startRegister.address, 2)
        b4 == writeUInt16BE(b3, length, 4)
    IN  writeUInt16LE(b4, calculateBufferCRC(b4), codeLength)

createModbusFrame(unitId, startRegister, length, command) ==
    LET codeLength == 6
        b1 == writeUInt8(alloc(codeLength + 2), unitId, 0)
        b2 == writeUInt8(b1, command, 1)
        b3 == writeUInt16BE(b2, startRegister.address, 2)
        b4 == writeUInt16BE(b3, length, 4)
    IN  writeUInt16LE(b4, calculateBufferCRC(withoutLastTwo(b4)), codeLength)

createModbusReadRequest(unitId, startRegister, length) ==
    createModbusFrame(unitId, startRegister, length,
                      IF startRegister.registerType = "Input" THEN 4 ELSE 3)

\* value is a Buffer (isBuffer, its bytes) or an array of numbers.
createModbusWriteRequest(unitId, reg, value) ==
    LET dataTypeLength == lengthForDataType(reg.dataType)
        dataLength == IF value.isBuffer THEN Len(value.data) \div 2 ELSE Len(value.data)
        codeLength == 7 + dataTypeLength * dataLength
        b1 == writeUInt8(alloc(codeLength + 2), unitId, 0)
        b2 == writeUInt8(b1, 16, 1)
        b3 == writeUInt16BE(b2, reg.address, 2)
        b4 == writeUInt16BE(b3, dataLength, 4)
        b5 == writeUInt8(b4, dataLength * 2, 6)
        b6 == IF value.isBuffer THEN copy(value.data, b5, 7)
              ELSE copy(concat(reg.dataType, value.data), b5, 7)
    IN  writeUInt16LE(b6, calculateBufferCRC(withoutLastTwo(b6)), codeLength)

\* The arguments of a request: connection.unitId, the register, the word
\* count of a read, the value of a write.
FrameValues ==
    {[isBuffer |-> FALSE, data |-> <<1>>], [isBuffer |-> FALSE, data |-> <<258, 65535>>],
     [isBuffer |-> TRUE, data |-> <<0, 16>>], [isBuffer |-> TRUE, data |-> <<1, 2, 3, 4>>]}
FrameInputs ==
    [unitId : {1, 247},
     register : [registerType : {"Input", "Holding"}, address : {0, 178, 65535},
                 dataType : DataTypes],
     length : {1, 125},
     value : FrameValues]

\* The request of a read / of a write is built from the arguments
\* values[p][1]; results[p] is the frame.
CreateModbusReadRequest(p) ==
    /\ pc[p] = "idle"
    /\ pc' = [pc EXCEPT ![p] = "done"]
    /\ op' = [op EXCEPT ![p] = "createModbusReadRequest"]
    /\ LET a == values[p][1] IN
       results' = [results EXCEPT ![p] = createModbusReadRequest(a.unitId, a.register, a.length)]
    /\ ret' = [ret EXCEPT ![p] = "buffer"]
    /\ UNCHANGED <<transport, shared, isRunningAction, mem, register, values, bitIndex, step,
                   client, readBuffer, trace, outcomes, devVars>>

CreateModbusWriteRequest(p) ==
    /\ pc[p] = "idle"
    /\ pc' = [pc EXCEPT ![p] = "done"]
    /\ op' = [op EXCEPT ![p] = "createModbusWriteRequest"]
    /\ LET a == values[p][1] IN
       results' = [results EXCEPT ![p] = createModbusWriteRequest(a.unitId, a.register, a.value)]
    /\ ret' = [ret EXCEPT ![p] = "buffer"]
    /\ UNCHANGED <<transport, shared, isRunningAction, mem, register, values, bitIndex, step,
                   client, readBuffer, trace, outcomes, devVars>>

InitFrame == transport = "solarman" /\ \E a \in FrameInputs : InitWith(1, <<<<a>>>>)
NextFrame == \E p \in 1..1 : CreateModbusReadRequest(p) \/ CreateModbusWriteRequest(p)
SpecFrame == InitFrame /\ [][NextFrame]_vars

\* ------------------------------------------------- state calculations
\* The state calculations handleResults runs after it has applied a valid
\* value.  A StateCalculation is its deviceTypes and its dependecies, which
\* are undefined or a list of capability ids; calculations are told apart
\* by their place in ModbusDevice.stateCalculations.
MaxCalcs == 2
RegisterCapabilities == {"measure_power.pv1", "measure_power.pv2"}
Dependecies ==
    {[defined |-> FALSE, ids |-> {}]} \cup
    {[defined |-> TRUE, ids |-> d] : d \in SUBSET RegisterCapabilities}
StateCalculations ==
    [deviceTypes : (SUBSET {"SOLAR", "BATTERY"}) \ {{}}, dependecies : Dependecies]
StateCalculationLists == UNION {[1..n -> StateCalculations] : n \in 0..MaxCalcs}

\* Variant of getStateCalculations that returns the calculations of every
\* device type; C27_DependentCalculationsRun tells it from the code.
getStateCalculationsOfAnyType(calcs, deviceType) ==
    [i \in 1..Len(calcs) |-> i]

\* ModbusDevice.getStateCalculations: the places of the calculations of
\* the device type, in order.
getStateCalculations(calcs, deviceType) ==
    SelectSeq([i \in 1..Len(calcs) |-> i], LAMBDA i : deviceType \in calcs[i].deviceTypes)

\* The filter of handleResults on the result of getStateCalculations.
dependendantStateCalculations(calcs, deviceType, capabilityId) ==
    SelectSeq(getStateCalculations(calcs, deviceType),
              LAMBDA i : \/ (calcs[i].dependecies.defined
                              /\ capabilityId \in calcs[i].dependecies.ids)
                         \/ ~calcs[i].dependecies.defined)

\* handleResults has applied a valid value of capability values[p][1].capabilityId
\* on the device values[p][1].battery says: it runs the dependent
\* calculations one after the other and publishes each result with
\* capabilityChange; results[p] are the calculations evaluated and
\* published, in order.
RunStateCalculations(p) ==
    /\ pc[p] = "idle"
    /\ pc' = [pc EXCEPT ![p] = "done"]
    /\ op' = [op EXCEPT ![p] = "handleResults"]
    /\ LET a == values[p][1]
           deviceType == IF a.battery THEN "BATTERY" ELSE "SOLAR"
       IN  results' = [results EXCEPT ![p] =
               dependendantStateCalculations(a.stateCalculations, deviceType, a.capabilityId)]
    /\ ret' = [ret EXCEPT ![p] = "void"]
    /\ UNCHANGED <<transport, shared, isRunningAction, mem, register, values, bitIndex, step,
                   client, readBuffer, trace, outcomes, devVars>>

InitCalc ==
    /\ transport \in Transports
    /\ \E b \in BOOLEAN, c \in RegisterCapabilities, l \in StateCalculationLists :
          InitWith(1, <<<<[battery |-> b, capabilityId |-> c, stateCalculations |-> l]>>>>)
NextCalc == \E p \in 1..1 : RunStateCalculations(p)
SpecCalc == InitCalc /\ [][NextCalc]_vars

\* ------------------------------------- read cycles and device actions
\* The two BaseDevice objects with their callers: onInit, the read timers,
\* the settings page and the flow cards (callAction).  api.readRegisters
\* and the register writes of an action are requests that are out until
\* the network answers; client[p] is the connection of the write of
\* action p.  A slot holds one invocation or one pending timer; device[p]
\* is the BaseDevice it runs on.  readRegisterTimeout is the slot of the
\* timer the field references (0: undefined); a timer that has fired or
\* was cleared may still be referenced.
UserActions == {"setSolarSell", "writeValueToRegister", "setAllTimeslotParameters"}
\* Invocations and timers at a time: with device actions, and of read
\* cycles.
GateSlots == 3
ReadSlots == 4
\* What does not change in these steps.
gateFixed == <<transport, shared, mem, register, bitIndex, readBuffer, results, trace, now,
               isInInvalidState, triggered, cursor, handled>>

\* A slot no invocation, pending timer or outstanding write is using.
Unused(p) == pc[p] \in {"idle", "done", "cancelled"} /\ client[p] # "open"
\* The next invocation is p.
Fresh(p) == Unused(p) /\ \A q \in Calls : q < p => ~Unused(q)

\* Invocation p is operation o on BaseDevice d with arguments args.
Taken(p, o, d, args) ==
    /\ op' = [op EXCEPT ![p] = o]
    /\ device' = [device EXCEPT ![p] = d]
    /\ values' = [values EXCEPT ![p] = args]
    /\ outcomes' = [outcomes EXCEPT ![p] = <<>>]

\* this.runningRequest of BaseDevice d, and an assignment to it.
RunningRequestOf(d) == IF d = "inverter" THEN baseRunningRequest ELSE batteryRunningRequest
SetRunningRequest(d, v) ==
    /\ baseRunningRequest' = IF d = "inverter" THEN v ELSE baseRunningRequest
    /\ batteryRunningRequest' = IF d = "battery" THEN v ELSE batteryRunningRequest

\* clearTimeout(this.readRegisterTimeout): the timer the field references
\* is cancelled when it is pending.
Cleared(P) ==
    [q \in DOMAIN P |-> IF q = readRegisterTimeout /\ P[q] = "scheduled" THEN "cancelled" ELSE P[q]]

\* BaseDevice.setApi: every device but a battery gets a new API instance.
setApi(A, d) == IF d = "battery" THEN A ELSE [A EXCEPT ![d] = TRUE]

\* BaseDevice.readRegisters of d up to its first suspension; hasApi tells
\* whether this.api is set.  The call returns for a battery, without api
\* and when too many are running; else it is counted, clears the timer and
\* either waits for runningRequest or takes it and calls api.readRegisters.
readRegisters(p, d, hasApi) ==
    IF d = "battery" \/ ~hasApi \/ (RunningRequestOf(d) /\ runningRequestCount > 2)
    THEN /\ pc' = [pc EXCEPT ![p] = "done"]
         /\ ret' = [ret EXCEPT ![p] = "void"]
         /\ UNCHANGED <<baseRunningRequest, batteryRunningRequest, runningRequestCount,
                        readRegisterTimeout>>
    ELSE /\ runningRequestCount' = runningRequestCount + 1
         /\ readRegisterTimeout' = 0
         /\ pc' = [Cleared(pc) EXCEPT ![p] = IF RunningRequestOf(d) THEN "devwait" ELSE "reading"]
         /\ ret' = [ret EXCEPT ![p] = "none"]
         /\ SetRunningRequest(d, TRUE)

\* BaseDevice.onInit of the inverter after `await this.setApi()`: the api
\* is set and readRegisters is called.
OnInitDone(p) ==
    /\ op[p] = "onInit"
    /\ pc[p] = "setApi"
    /\ api' = setApi(api, device[p])
    /\ Taken(p, "readRegisters", device[p], <<>>)
    /\ readRegisters(p, device[p], setApi(api, device[p])[device[p]])
    /\ UNCHANGED <<isRunningAction, step, client, lastSuccessfullRead, isStopping, gateFixed>>

\* A read timer fires: it calls readRegisters.
TimerReadRegisters(p) ==
    /\ pc[p] = "scheduled"
    /\ Taken(p, "readRegisters", device[p], <<>>)
    /\ readRegisters(p, device[p], api[device[p]])
    /\ UNCHANGED <<isRunningAction, step, client, lastSuccessfullRead, isStopping, api,
                   gateFixed>>

\* onInit or an onSettings call is at its await.  The settings page is used
\* once the device is initialised and saves one change at a time.
SettingsBusy ==
    \E q \in Calls : op[q] \in {"onInit", "onSettings"} /\ pc[q] \in {"setApi", "setAvailable", "setUnavailable"}

\* BaseDevice.onSettings of d with enabled = true, up to `await
\* this.setAvailable()`: the timer is cleared, the field keeps its value.
\* (The timer and isStopping of the battery device are not modelled.)
OnSettingsEnable(p, d) ==
    /\ Fresh(p)
    /\ ~SettingsBusy
    /\ Taken(p, "onSettings", d, <<>>)
    /\ pc' = [(IF d = "inverter" THEN Cleared(pc) ELSE pc) EXCEPT ![p] = "setAvailable"]
    /\ isStopping' = IF d = "inverter" THEN FALSE ELSE isStopping
    /\ ret' = [ret EXCEPT ![p] = "none"]
    /\ step' = [step EXCEPT ![p] = 0]
    /\ client' = [client EXCEPT ![p] = "none"]
    /\ UNCHANGED <<isRunningAction, lastSuccessfullRead, baseRunningRequest,
                   batteryRunningRequest, runningRequestCount, readRegisterTimeout, api,
                   gateFixed>>

\* ... and after setAvailable and setApi: every device but a battery calls
\* readRegisters.
OnSettingsEnabled(p) ==
    /\ op[p] = "onSettings"
    /\ pc[p] = "setAvailable"
    /\ api' = setApi(api, device[p])
    /\ IF device[p] # "battery"
       THEN /\ Taken(p, "readRegisters", device[p], <<>>)
            /\ readRegisters(p, device[p], setApi(api, device[p])[device[p]])
       ELSE /\ pc' = [pc EXCEPT ![p] = "done"]
            /\ ret' = [ret EXCEPT ![p] = "void"]
            /\ UNCHANGED <<op, device, values, outcomes, baseRunningRequest,
                           batteryRunningRequest, runningRequestCount, readRegisterTimeout>>
    /\ UNCHANGED <<isRunningAction, step, client, lastSuccessfullRead, isStopping, gateFixed>>

\* BaseDevice.onSettings of the inverter with enabled = false, up to
\* `await this.setUnavailable(...)`: the timer is cleared.
OnSettingsStop(p) ==
    /\ Fresh(p)
    /\ ~SettingsBusy
    /\ Taken(p, "onSettings", "inverter", <<>>)
    /\ pc' = [Cleared(pc) EXCEPT ![p] = "setUnavailable"]
    /\ ret' = [ret EXCEPT ![p] = "none"]
    /\ step' = [step EXCEPT ![p] = 0]
    /\ client' = [client EXCEPT ![p] = "none"]
    /\ UNCHANGED <<isRunningAction, lastSuccessfullRead, baseRunningRequest,
                   batteryRunningRequest, runningRequestCount, readRegisterTimeout, isStopping,
                   api, gateFixed>>

\* ... and after setUnavailable: isStopping is set.
OnSettingsStopped(p) ==
    /\ op[p] = "onSettings"
    /\ pc[p] = "setUnavailable"
    /\ isStopping' = TRUE
    /\ pc' = [pc EXCEPT ![p] = "done"]
    /\ ret' = [ret EXCEPT ![p] = "void"]
    /\ UNCHANGED <<isRunningAction, op, device, values, outcomes, step, client,
                   lastSuccessfullRead, baseRunningRequest, batteryRunningRequest,
                   runningRequestCount, readRegisterTimeout, api, gateFixed>>

\* The 500 ms delay of a waiting readRegisters is over and runningRequest
\* is false: it takes the flag and calls api.readRegisters.
ReadRegistersAdmit(p) ==
    /\ op[p] = "readRegisters"
    /\ pc[p] = "devwait"
    /\ ~RunningRequestOf(device[p])
    /\ SetRunningRequest(device[p], TRUE)
    /\ pc' = [pc EXCEPT ![p] = "reading"]
    /\ UNCHANGED <<isRunningAction, op, device, values, outcomes, step, client, ret,
                   lastSuccessfullRead, runningRequestCount, readRegisterTimeout, isStopping,
                   api, gateFixed>>

\* api.readRegisters returns its list: handleResults is awaited.
ReadRegistersReturned(p) ==
    /\ op[p] = "readRegisters"
    /\ pc[p] = "reading"
    /\ pc' = [pc EXCEPT ![p] = "handling"]
    /\ UNCHANGED <<isRunningAction, op, device, values, outcomes, step, client, ret,
                   lastSuccessfullRead, baseRunningRequest, batteryRunningRequest,
                   runningRequestCount, readRegisterTimeout, isStopping, api, gateFixed>>

\* handleResults has returned (it took the time as lastSuccessfullRead):
\* the finally block of readRegisters.  Unless the device is stopping a
\* timer is set and assigned to readRegisterTimeout; the timer takes the
\* slot of the invocation that has ended.
HandleResultsReturned(p) ==
    /\ op[p] = "readRegisters"
    /\ pc[p] = "handling"
    /\ lastSuccessfullRead' = [lastSuccessfullRead EXCEPT ![device[p]] = now]
    /\ SetRunningRequest(device[p], FALSE)
    /\ runningRequestCount' = runningRequestCount - 1
    /\ ret' = [ret EXCEPT ![p] = "void"]
    /\ IF isStopping
       THEN /\ pc' = [pc EXCEPT ![p] = "done"]
            /\ UNCHANGED readRegisterTimeout
       ELSE /\ pc' = [pc EXCEPT ![p] = "scheduled"]
            /\ readRegisterTimeout' = p
    /\ UNCHANGED <<isRunningAction, op, device, values, outcomes, step, client, isStopping, api,
                   gateFixed>>

\* The number of register writes device action a awaits one after the
\* other.
Writes(a) == IF a = "setAllTimeslotParameters" THEN 3 ELSE 1

\* How the promise of ModbusDevice.callAction settles when the device
\* action has returned or thrown: the try block catches and logs.
deviceCallAction(result) == "resolved"

\* BaseDevice.callAction of d from `this.runningRequest = true` on, with
\* ModbusDevice.callAction and the action a it runs.  Without api, and
\* with arguments without args.device.device, it logs and returns.
\* setSolarSell and setAllTimeslotParameters await their register writes.
\* writeValueToRegister calls client.writeValueToRegister(args) without
\* await: on ModbusAPI2 the write goes out and the action has returned; on
\* SolarmanAPI2 the method throws and ModbusDevice.callAction catches.  An
\* action that has returned leaves isRunningAction and runningRequest
\* false in the same turn.
RunAction(p, d, a, hasDevice) ==
    IF ~api[d] \/ ~hasDevice
    THEN /\ SetRunningRequest(d, TRUE)
         /\ pc' = [pc EXCEPT ![p] = "done"]
         /\ ret' = [ret EXCEPT ![p] = "void"]
         /\ step' = [step EXCEPT ![p] = 0]
         /\ client' = [client EXCEPT ![p] = "none"]
         /\ UNCHANGED isRunningAction
    ELSE IF isRunningAction
    THEN /\ SetRunningRequest(d, TRUE)
         /\ pc' = [pc EXCEPT ![p] = "flagwait"]
         /\ ret' = [ret EXCEPT ![p] = "none"]
         /\ step' = [step EXCEPT ![p] = 0]
         /\ client' = [client EXCEPT ![p] = "none"]
         /\ UNCHANGED isRunningAction
    ELSE IF a = "writeValueToRegister"
    THEN /\ SetRunningRequest(d, FALSE)
         /\ isRunningAction' = FALSE
         /\ client' = [client EXCEPT ![p] = IF transport = "modbus" THEN "open" ELSE "none"]
         /\ step' = [step EXCEPT ![p] = 0]
         /\ pc' = [pc EXCEPT ![p] = "done"]
         /\ ret' = [ret EXCEPT ![p] = "void"]
    ELSE /\ SetRunningRequest(d, TRUE)
         /\ isRunningAction' = TRUE
         /\ client' = [client EXCEPT ![p] = "open"]
         /\ step' = [step EXCEPT ![p] = 1]
         /\ pc' = [pc EXCEPT ![p] = "acting"]
         /\ ret' = [ret EXCEPT ![p] = "none"]

\* BaseDevice.callAction(action, args, 0) of a device that is no battery:
\* it waits while runningRequest is true.
callActionOf(p, d, a, hasDevice) ==
    /\ Taken(p, a, d, <<[device |-> hasDevice, retryCount |-> 0]>>)
    /\ IF RunningRequestOf(d)
       THEN /\ pc' = [pc EXCEPT ![p] = "actwait"]
            /\ ret' = [ret EXCEPT ![p] = "none"]
            /\ step' = [step EXCEPT ![p] = 0]
            /\ client' = [client EXCEPT ![p] = "none"]
            /\ UNCHANGED <<baseRunningRequest, batteryRunningRequest, isRunningAction>>
       ELSE RunAction(p, d, a, hasDevice)

callActionUnforwarded(p, d, a, hasDevice, linked) == callActionOf(p, d, a, hasDevice)

\* BaseDevice.callAction(action, args) of d: a battery passes the call on
\* to this.inverterDevice, or does nothing when the field is not set.
callAction(p, d, a, hasDevice, linked) ==
    IF d = "battery"
    THEN IF linked
         THEN callActionOf(p, "inverter", a, hasDevice)
         ELSE /\ Taken(p, a, d, <<[device |-> hasDevice, retryCount |-> 0]>>)
              /\ pc' = [pc EXCEPT ![p] = "done"]
              /\ ret' = [ret EXCEPT ![p] = "void"]
              /\ step' = [step EXCEPT ![p] = 0]
              /\ client' = [client EXCEPT ![p] = "none"]
              /\ UNCHANGED <<baseRunningRequest, batteryRunningRequest, isRunningAction>>
    ELSE callActionOf(p, d, a, hasDevice)

\* A flow card of device d calls its callAction.
CallAction(p, d, a) ==
    /\ Fresh(p)
    /\ \E hasDevice \in BOOLEAN, linked \in BOOLEAN : callAction(p, d, a, hasDevice, linked)
    /\ UNCHANGED <<lastSuccessfullRead, runningRequestCount, readRegisterTimeout, isStopping,
                   api, gateFixed>>

\* The 200 ms delay of a waiting callAction is over and runningRequest is
\* false.
CallActionAdmit(p) ==
    /\ op[p] \in UserActions
    /\ pc[p] = "actwait"
    /\ ~RunningRequestOf(device[p])
    /\ RunAction(p, device[p], op[p], values[p][1].device)
    /\ UNCHANGED <<op, device, values, outcomes, lastSuccessfullRead, runningRequestCount,
                   readRegisterTimeout, isStopping, api, gateFixed>>

\* The register write of action p is answered (or fails).  An action that
\* awaits it goes on: setAllTimeslotParameters throws when the write has
\* failed, else it pauses 500 ms before its next write; after its last
\* write an action returns.  When ModbusDevice.callAction has resolved,
\* BaseDevice.callAction resets runningRequest; when it has rejected,
\* BaseDevice.callAction sets the timer of the retry.
ActionWriteDone(p, outcome) ==
    /\ op[p] \in UserActions
    /\ client[p] = "open"
    /\ client' = [client EXCEPT ![p] = "closed"]
    /\ outcomes' = [outcomes EXCEPT ![p] = Append(@, outcome)]
    /\ IF pc[p] # "acting"
       THEN UNCHANGED <<isRunningAction, baseRunningRequest, batteryRunningRequest, pc, ret>>
       ELSE LET thrown == op[p] = "setAllTimeslotParameters" /\ outcome # "ok"
            IN  IF ~thrown /\ step[p] < Writes(op[p])
                THEN /\ pc' = [pc EXCEPT ![p] = "pause"]
                     /\ UNCHANGED <<isRunningAction, baseRunningRequest, batteryRunningRequest,
                                    ret>>
                ELSE /\ isRunningAction' = FALSE
                     /\ IF deviceCallAction(IF thrown THEN "thrown" ELSE "returned") = "rejected"
                        THEN /\ pc' = [pc EXCEPT ![p] = "retry"]
                             /\ UNCHANGED <<baseRunningRequest, batteryRunningRequest, ret>>
                        ELSE /\ SetRunningRequest(device[p], FALSE)
                             /\ pc' = [pc EXCEPT ![p] = "done"]
                             /\ ret' = [ret EXCEPT ![p] = "void"]
    /\ UNCHANGED <<op, device, values, step, lastSuccessfullRead, runningRequestCount,
                   readRegisterTimeout, isStopping, api, gateFixed>>

\* The 500 ms pause of setAllTimeslotParameters is over: its next write
\* goes out.
ActionPauseElapsed(p) ==
    /\ op[p] \in UserActions
    /\ pc[p] = "pause"
    /\ pc' = [pc EXCEPT ![p] = "acting"]
    /\ step' = [step EXCEPT ![p] = @ + 1]
    /\ client' = [client EXCEPT ![p] = "open"]
    /\ UNCHANGED <<isRunningAction, op, device, values, outcomes, ret, lastSuccessfullRead,
                   baseRunningRequest, batteryRunningRequest, runningRequestCount,
                   readRegisterTimeout, isStopping, api, gateFixed>>

\* The timer of a retry fires: BaseDevice.callAction(action, args,
\* retryCount + 1), which gives up past three retries and else goes on
\* without waiting for runningRequest.
RetryAction(p) ==
    /\ op[p] \in UserActions
    /\ pc[p] = "retry"
    /\ values' = [values EXCEPT ![p] = <<[@[1] EXCEPT !.retryCount = @ + 1]>>]
    /\ IF values[p][1].retryCount + 1 > 3
       THEN /\ SetRunningRequest(device[p], FALSE)
            /\ pc' = [pc EXCEPT ![p] = "done"]
            /\ ret' = [ret EXCEPT ![p] = "void"]
            /\ UNCHANGED <<isRunningAction, step, client>>
       ELSE RunAction(p, device[p], op[p], values[p][1].device)
    /\ UNCHANGED <<op, device, outcomes, lastSuccessfullRead, runningRequestCount,
                   readRegisterTimeout, isStopping, api, gateFixed>>

\* The devices during onInit of the inverter: it is at `await
\* this.setApi()`, no api is set yet.  n invocations or timers at a time.
InitSlots(n) ==
    /\ transport \in Transports
    /\ queue = <<>>
    /\ busy = FALSE
    /\ detached = 0
    /\ runningRequest = FALSE
    /\ isRunningAction = FALSE
    /\ mem = [a \in Addresses |-> 0]
    /\ pc = [p \in 1..n |-> IF p = 1 THEN "setApi" ELSE "idle"]
    /\ op = [p \in 1..n |-> IF p = 1 THEN "onInit" ELSE "none"]
    /\ device = [p \in 1..n |-> IF p = 1 THEN "inverter" ELSE "none"]
    /\ register = [p \in 1..n |-> NoRegister]
    /\ values = [p \in 1..n |-> <<>>]
    /\ bitIndex = [p \in 1..n |-> 0]
    /\ step = [p \in 1..n |-> 0]
    /\ client = [p \in 1..n |-> "none"]
    /\ readBuffer = [p \in 1..n |-> 0]
    /\ results = [p \in 1..n |-> <<>>]
    /\ trace = [p \in 1..n |-> <<>>]
    /\ outcomes = [p \in 1..n |-> <<>>]
    /\ ret = [p \in 1..n |-> "none"]
    /\ now = 0
    /\ lastSuccessfullRead = [d \in Devices |-> NoRead]
    /\ isInInvalidState = [d \in Devices |-> {}]
    /\ triggered = [d \in Devices |-> [c \in Capabilities |-> 0]]
    /\ baseRunningRequest = FALSE
    /\ batteryRunningRequest = FALSE
    /\ api = [d \in Devices |-> FALSE]
    /\ runningRequestCount = 0
    /\ readRegisterTimeout = 0
    /\ isStopping = FALSE
    /\ cursor = [p \in 1..n |-> 0]
    /\ handled = [p \in 1..n |-> NotHandled]
\* The inverter device with its read cycles and flow cards.
InitGate == InitSlots(GateSlots)
NextGate ==
    \E p \in 1..GateSlots :
        \/ OnInitDone(p)
        \/ TimerReadRegisters(p)
        \/ OnSettingsEnable(p, "inverter")
        \/ OnSettingsEnabled(p)
        \/ ReadRegistersAdmit(p)
        \/ ReadRegistersReturned(p)
        \/ HandleResultsReturned(p)
        \/ \E a \in UserActions : CallAction(p, "inverter", a)
        \/ CallActionAdmit(p)
        \/ \E o \in ModbusOutcomes : ActionWriteDone(p, o)
        \/ ActionPauseElapsed(p)
SpecGate == InitGate /\ [][NextGate]_vars

\* The read cycles of the inverter device and its settings page.
InitTimers == InitSlots(ReadSlots)
NextTimers ==
    \E p \in 1..ReadSlots :
        \/ OnInitDone(p)
        \/ TimerReadRegisters(p)
        \/ OnSettingsEnable(p, "inverter")
        \/ OnSettingsEnabled(p)
        \/ OnSettingsStop(p)
        \/ OnSettingsStopped(p)
        \/ ReadRegistersAdmit(p)
        \/ ReadRegistersReturned(p)
        \/ HandleResultsReturned(p)
SpecTimers == InitTimers /\ [][NextTimers]_vars

\* The read cycles of the inverter device next to one flow card, Set
\* solar sell, whose write succeeds.
InitCount == InitSlots(ReadSlots)
NextCount ==
    \E p \in 1..ReadSlots :
        \/ OnInitDone(p)
        \/ TimerReadRegisters(p)
        \/ OnSettingsEnable(p, "inverter")
        \/ OnSettingsEnabled(p)
        \/ ReadRegistersAdmit(p)
        \/ ReadRegistersReturned(p)
        \/ HandleResultsReturned(p)
        \/ CallAction(p, "inverter", "setSolarSell")
        \/ CallActionAdmit(p)
        \/ ActionWriteDone(p, "ok")
SpecCount == InitCount /\ [][NextCount]_vars

\* The battery device next to the inverter device: its settings page and
\* its flow cards.
InitRoles == InitSlots(GateSlots)
NextRoles ==
    \E p \in 1..GateSlots :
        \/ OnInitDone(p)
        \/ TimerReadRegisters(p)
        \/ OnSettingsEnable(p, "battery")
        \/ OnSettingsEnabled(p)
        \/ ReadRegistersAdmit(p)
        \/ ReadRegistersReturned(p)
        \/ HandleResultsReturned(p)
        \/ \E a \in UserActions : CallAction(p, "battery", a)
        \/ CallActionAdmit(p)
        \/ \E o \in ModbusOutcomes : ActionWriteDone(p, o)
        \/ ActionPauseElapsed(p)
SpecRoles == InitRoles /\ [][NextRoles]_vars

\* ---------------------------------------------------- request timeouts
\* The connection options BaseDevice.getApi gives both transports.
ConnectionTimeout == 5000
getApi == [timeout |-> ConnectionTimeout]
\* The inactivity timeout, in ms, a transport sets on the socket of a
\* request: client.setTimeout(timeout) of ModbusAPI2.connect,
\* client.setTimeout(this.connection.timeout * 1000) of SolarmanAPI2.
socketTimeout(connection) ==
    IF transport = "solarman" THEN connection.timeout * 1000 ELSE connection.timeout

\* Seconds per step of the inactivity clock, and its cap.
IdleTick == 5
MaxIdle == 5000

\* An operation opens the socket of its request: client[p] is the socket
\* with its timeout (ms) and the time (s) it has been idle.
OpenSocket(p) ==
    /\ pc[p] = "idle"
    /\ pc' = [pc EXCEPT ![p] = "requesting"]
    /\ op' = [op EXCEPT ![p] = "readAddressWithoutConversion"]
    /\ client' = [client EXCEPT ![p] = [timeout |-> socketTimeout(getApi), idle |-> 0]]
    /\ UNCHANGED <<transport, shared, isRunningAction, mem, register, values, bitIndex, step,
                   readBuffer, results, trace, outcomes, ret, devVars>>

\* Nothing arrives for IdleTick seconds on the sockets that are open; a
\* socket whose timeout is due gets its timeout event first.
IdleTime ==
    /\ \E p \in Calls : pc[p] = "requesting"
    /\ \A p \in Calls :
          pc[p] = "requesting" =>
              /\ client[p].idle * 1000 < client[p].timeout
              /\ client[p].idle < MaxIdle
    /\ client' = [p \in Calls |->
                     IF pc[p] = "requesting"
                     THEN [client[p] EXCEPT !.idle = @ + IdleTick]
                     ELSE client[p]]
    /\ UNCHANGED <<transport, shared, isRunningAction, mem, pc, op, register, values, bitIndex,
                   step, readBuffer, results, trace, outcomes, ret, devVars>>

\* The answer arrives: the request returns a buffer.
SocketData(p) ==
    /\ pc[p] = "requesting"
    /\ pc' = [pc EXCEPT ![p] = "done"]
    /\ ret' = [ret EXCEPT ![p] = "buffer"]
    /\ outcomes' = [outcomes EXCEPT ![p] = Append(@, "ok")]
    /\ UNCHANGED <<transport, shared, isRunningAction, mem, op, register, values, bitIndex, step,
                   client, readBuffer, results, trace, devVars>>

\* The socket was idle for its timeout: the request returns undefined;
\* results[p] is the time waited, in ms.
SocketTimeout(p) ==
    /\ pc[p] = "requesting"
    /\ client[p].idle * 1000 >= client[p].timeout
    /\ pc' = [pc EXCEPT ![p] = "done"]
    /\ ret' = [ret EXCEPT ![p] = "undefined"]
    /\ outcomes' = [outcomes EXCEPT ![p] = Append(@, "timeout")]
    /\ results' = [results EXCEPT ![p] = <<client[p].idle * 1000>>]
    /\ UNCHANGED <<transport, shared, isRunningAction, mem, op, register, values, bitIndex, step,
                   client, readBuffer, trace, devVars>>

InitTimeout == transport \in Transports /\ InitCommon(1)
NextTimeouts ==
    \/ \E p \in 1..1 : OpenSocket(p) \/ SocketData(p) \/ SocketTimeout(p)
    \/ IdleTime
SpecTimeout == InitTimeout /\ [][NextTimeouts]_vars

\* ---------------------------------------------------------- cloud API
\* The responses of the BlauHoff cloud API as the API class sees them after
\* parsing: undefined, or a BaseResponse with code, msg and data.
UndefinedResponse == [defined |-> FALSE, code |-> 0, msg |-> "", data |-> "undefined"]
Response(code, msg, data) == [defined |-> TRUE, code |-> code, msg |-> msg, data |-> data]
ResponseCodes == {200, 401, 500}
ResponseMessages == {"OK", "ERROR"}
ResponseData == {"ratePower1", "ratePower2"}
Responses ==
    {UndefinedResponse}
    \cup {Response(c, t, d) : c \in ResponseCodes, t \in ResponseMessages, d \in ResponseData}

\* Variant of isValidResponse that looks at the code only;
\* C18_ValidResponseDecidesResult tells it from the code.
isValidResponseCodeOnly(response) ==
    IF ~response.defined THEN FALSE ELSE response.code = 200

isValidResponse(response) ==
    IF ~response.defined THEN FALSE
    ELSE response.code = 200 /\ response.msg = "OK"

\* API.setMode6 / API.getRatePower on the response of their request.
setMode6(response) == IF isValidResponse(response) THEN "true" ELSE "false"
getRatePower(response) == IF isValidResponse(response) THEN response.data ELSE "undefined"

\* The request of call p is answered by the response values[p][1].
SetMode6(p) ==
    /\ pc[p] = "idle"
    /\ pc' = [pc EXCEPT ![p] = "done"]
    /\ op' = [op EXCEPT ![p] = "setMode6"]
    /\ ret' = [ret EXCEPT ![p] = setMode6(values[p][1])]
    /\ UNCHANGED <<transport, shared, isRunningAction, mem, register, values, bitIndex, step,
                   client, readBuffer, results, trace, outcomes, devVars>>

GetRatePower(p) ==
    /\ pc[p] = "idle"
    /\ pc' = [pc EXCEPT ![p] = "done"]
    /\ op' = [op EXCEPT ![p] = "getRatePower"]
    /\ ret' = [ret EXCEPT ![p] = getRatePower(values[p][1])]
    /\ UNCHANGED <<transport, shared, isRunningAction, mem, register, values, bitIndex, step,
                   client, readBuffer, results, trace, outcomes, devVars>>

InitCloud ==
    /\ transport = "cloud"
    /\ \E rs \in [1..ApiCalls -> Responses] :
          InitWith(ApiCalls, [p \in 1..ApiCalls |-> <<rs[p]>>])
NextCloud == \E p \in 1..ApiCalls : SetMode6(p) \/ GetRatePower(p)
SpecCloud == InitCloud /\ [][NextCloud]_vars

\* ------------------------------------------------------------ properties
\* p has been called and has not returned.
InProgress(p) == pc[p] \notin {"idle", "done"}
\* p has a connection being opened or a request outstanding.
OnWire(p) == pc[p] \in {"connecting", "requesting"}
\* p is a read cycle between its admission and its return.
ReadCycleOnWire(p) == op[p] = "readRegisters" /\ OnWire(p)
\* p has sent a request and waits for the answer.
RequestOut(p) == pc[p] = "requesting"

\* C1: on one API instance a write and a read cycle never overlap: no write
\* request is outstanding while a readRegisters cycle is between its
\* admission and its return.
C1_ReadAndWriteNeverOverlap ==
    \A r \in Calls, w \in Calls :
        ~(ReadCycleOnWire(r) /\ RequestOut(w) /\ CurIns(w).prim \in WritePrims)

\* C2: two readRegisters cycles on one API instance never overlap: the
\* second sends nothing before the first has returned, whatever reads and
\* writes run next to them.
C2_ReadCyclesNeverOverlap ==
    \A r1 \in Calls, r2 \in Calls :
        r1 # r2 => ~(ReadCycleOnWire(r1) /\ ReadCycleOnWire(r2) /\ RequestOut(r2))

\* C3: a read cycle releases its admission when it completes: once a
\* readRegisters call has returned and nothing else is in progress, a later
\* readRegisters call waiting for admission finds the busy flag false (so
\* its next poll admits it).
C3_ReturnedReadReleasesAdmission ==
    \A p \in Calls :
        ( /\ op[p] = "readRegisters" /\ pc[p] = "queued"
          /\ \E q \in Calls : op[q] = "readRegisters" /\ pc[q] = "done"
          /\ \A q \in Calls \ {p} : ~InProgress(q)
          /\ detached = 0 )
        => ~busy

\* C4: the ModbusAPI2 queue is never left busy with no operation in flight:
\* when every started operation has finished and no wait loop is left
\* behind, busy is false.
C4_QueueNotLeftBusy ==
    ((\A p \in Calls : ~InProgress(p)) /\ detached = 0) => ~busy

\* C5: writeBitsToRegister is atomic with respect to other writes to the
\* register: from its read to its write-back the register holds what it
\* read.
C5_NoWriteBetweenReadAndWriteBack ==
    \A p \in Calls :
        (op[p] = "writeBitsToRegister" /\ step[p] = 2 /\ InProgress(p))
        => mem[register[p].address] = readBuffer[p]

\* Callers of wait(command, ...) that were not refused and have not called
\* setBusy(false) yet.
Outstanding(command) ==
    {p \in Calls : op[p] = command /\ pc[p] \in {"queued", "holding"}}

\* C6 as stated: of the concurrent calls of wait(name, max) only the first
\* max are accepted, whatever the state of the queue at the first call: at
\* most max callers of one name are blocked or admitted and not yet done.
C6_AtMostMaxOutstanding ==
    \A command \in QueueCommands :
        Cardinality(Outstanding(command)) <= MaxOccurencesOf(command)

\* C6: wait(name, max) refuses a call exactly when max calls of that name
\* are blocked in its loop: at most max callers of one name are ever
\* blocked, and the queue holds exactly their entries (a call admitted at
\* once leaves no entry and is not counted).
C6_AtMostMaxBlocked ==
    \A command \in QueueCommands :
        /\ Cardinality(Blocked(command)) <= MaxOccurencesOf(command)
        /\ Count(queue, command) = Cardinality(Blocked(command))

\* A call of wait was refused while max calls of its name are blocked.
C6_RefusedAtMax ==
    \E p \in Calls :
        /\ pc[p] = "idle" /\ ret[p] = "false"
        /\ Cardinality(Blocked(op[p])) = MaxOccurencesOf(op[p])

\* C7: writeRegisters / writeBufferRegister return true only if a response
\* to the request was received, and false when the connection, the request
\* or the response failed.
C7_WriteResultTellsOutcome ==
    \A p \in Calls :
        (op[p] \in WritePrims /\ pc[p] = "done" /\ outcomes[p] # <<>>)
        => ret[p] = (IF outcomes[p] = <<"ok">> THEN "true" ELSE "false")

\* vals holds a non-Buffer value that validateValue rejects.
HasInvalidValue(vals) ==
    \E i \in 1..Len(vals) : ~vals[i].isBuffer /\ ~validateValue(vals[i])

\* C8: a writeRegisters call whose list holds an invalid non-Buffer value,
\* wherever it stands, returns false in the step of the call, and that step
\* opens no connection, sends nothing and leaves the queue as it was; on
\* both transports.
C8_InvalidValueFailsClosed ==
    [][\A p \in Calls :
        ( /\ pc[p] = "idle" /\ pc'[p] # "idle"
          /\ op'[p] = "writeRegisters"
          /\ HasInvalidValue(values'[p]) )
        => /\ pc'[p] = "done" /\ ret'[p] = "false"
           /\ UNCHANGED <<queue, busy, detached, runningRequest, mem, client, outcomes>>]_vars

\* A writeRegisters call on a ReadWrite register whose second value is the
\* invalid one has returned false while the queue was held by another call.
C8_InvalidSecondValueRefused ==
    \E p \in Calls :
        /\ op[p] = "writeRegisters" /\ pc[p] = "done" /\ ret[p] = "false"
        /\ register[p].accessMode = "ReadWrite"
        /\ Len(values[p]) = 2
        /\ validateValue(values[p][1]) /\ ~validateValue(values[p][2])
        /\ outcomes[p] = <<>> /\ client[p] = "none"
        /\ \E q \in Calls \ {p} : OnWire(q)

\* C9: in a composite action no later instruction is started once a read
\* or write of the action has failed (false, undefined or thrown): a failed
\* instruction is the last one of a finished action.
C9_NoWriteAfterFailedWrite ==
    \A p \in Calls :
        op[p] \in DeviceActions =>
            \A i \in 1..Len(trace[p]) :
                trace[p][i] \in {"false", "undefined", "throw"}
                => (pc[p] = "done" /\ i = Len(trace[p]))

\* The batches of a cycle whose request succeeded, in order.
OkBatches(o) ==
    SelectSeq([i \in 1..Len(o) |-> i], LAMBDA i : o[i] = "ok")

\* C10: a failed batch does not end the read cycle: the results are those
\* of exactly the batches whose request succeeded, and a cycle that got its
\* connection returns only after all batches were requested; on both
\* transports.
C10_FailedBatchDoesNotEndCycle ==
    \A p \in Calls :
        op[p] = "readRegisters" =>
            /\ results[p] = OkBatches(outcomes[p])
            /\ (pc[p] = "done" /\ outcomes[p] \notin {<<>>, <<"noconnect">>})
               => (Len(outcomes[p]) = NumBatches /\ ret[p] = "list")

\* A read cycle has returned the results of a batch requested after a
\* batch that failed.
C10_LaterBatchReturned ==
    \E p \in Calls :
        /\ op[p] = "readRegisters" /\ pc[p] = "done"
        /\ \E i \in 1..Len(outcomes[p]), j \in 1..Len(outcomes[p]) :
              /\ i < j
              /\ outcomes[p][i] \in {"timeout", "error", "malformed"}
              /\ outcomes[p][j] = "ok"
              /\ \E k \in 1..Len(results[p]) : results[p][k] = j

\* The values of the list vals that device d looks at.
OwnValues(d, vals) == {i \in 1..Len(vals) : vals[i].deviceType = DeviceTypeOf(d)}
\* The read cycle of the inverter device has ended (finally block done).
CycleEnded == device[PollSlot] = "inverter" /\ pc[PollSlot] = "done"

\* C11: a register value that fails validation does not stop the rest of
\* handleResults: when the inverter's handleResults has returned from a
\* list with an invalid value, every valid value after it has been applied
\* to its capability, the list has been forwarded to the battery device
\* and lastSuccessfullRead has been set.
C11_InvalidValueDoesNotStopCycle ==
    CycleEnded =>
        LET vals == values[PollSlot]
            own == OwnValues("inverter", vals)
        IN \A i \in own :
              ~vals[i].valid =>
                  /\ \A j \in own :
                        (j > i /\ vals[j].valid) =>
                            \E k \in 1..Len(handled[PollSlot].applied) :
                                handled[PollSlot].applied[k] = j
                  /\ handled[PollSlot].forwarded
                  /\ handled[PollSlot].stamped

\* C12: for each capability of each device the invalid_value_received
\* trigger fires at most once until a valid value of that capability has
\* been applied, also when handleResults executions overlap.
C12_TriggerFiresOncePerInvalidSpell ==
    \A d \in Devices : \A c \in Capabilities : triggered[d][c] <= 1

\* C13: lastSuccessfullRead advances only on a read cycle that produced
\* decoded register values: a cycle whose handleResults set it was handed
\* a list that is not empty (so that cycles without values, e.g. with all
\* batches timed out, let isAvailable turn false after 180 seconds and
\* the reads fall back to the 60-second interval).
C13_ReadTimeOnlyFromDecodedValues ==
    (CycleEnded /\ handled[PollSlot].stamped) => values[PollSlot] # <<>>

\* The inverter's read cycle has passed the too-many-requests guard and has
\* not reached the end of its finally block.
CycleRunning == device[PollSlot] = "inverter" /\ pc[PollSlot] \notin {"idle", "done"}

\* C14: every read cycle that BaseDevice.readRegisters started comes to its
\* finally block, whatever its outcome, and leaves a timer for the next
\* read unless the device is stopping.
C14_StartedCycleSchedulesNext ==
    CycleRunning ~> (CycleEnded /\ (isStopping \/ readRegisterTimeout # "none"))

\* The number of RegisterOutputs of register i in the list out.
OutputCount(out, i) == Cardinality({k \in 1..Len(out) : out[k].register = i})

\* C15: within a batch a register whose value is invalid or whose
\* conversion throws yields no RegisterOutput, and every register that
\* decodes to a valid value yields one RegisterOutput per
\* parseConfiguration, on both transports.
C15_OtherRegistersStillDecoded ==
    \A p \in Calls :
        (op[p] = "readBatch" /\ pc[p] = "done") =>
            \A i \in 1..Len(values[p]) :
                OutputCount(results[p], i) =
                    IF values[p][i].decoded = "valid"
                    THEN values[p][i].parseConfigurations ELSE 0

\* The invocations whose request has an open socket (performRequestQueued
\* has created and connected it, none of its events has ended it).
OpenSockets == {p \in Calls : transport = "solarman" /\ pc[p] = "requesting"}

\* C16: at any time at most one request of a SolarmanAPI2 instance has an
\* open socket, under every interleaving of read cycles, single-register
\* reads, writes and bit updates.
C16_OneSolarmanRequestAtATime == Cardinality(OpenSockets) <= 1

\* C16 witness: a request is outstanding and a second operation is held
\* back in the loop of performRequest.
C16_SecondRequestHeldBack ==
    /\ transport = "solarman"
    /\ \E p, q \in Calls : pc[p] = "requesting" /\ pc[q] = "pending"

\* p has sent a write request to the device for a ReadOnly register.
WritesReadOnly(p) ==
    /\ pc[p] = "requesting"
    /\ CurIns(p).prim \in WritePrims
    /\ CurIns(p).reg.accessMode = "ReadOnly"

\* C17: no ModbusAPI2 write operation (writeRegister, writeRegisters,
\* writeBufferRegister, writeBitsToRegister) sends a write request for a
\* register whose access mode is ReadOnly.
C17_NoWriteToReadOnlyRegister ==
    transport = "modbus" => \A p \in Calls : ~WritesReadOnly(p)

\* A response that is defined and has code 200 and msg 'OK'.
DefinedOk(r) == r.defined /\ r.code = 200 /\ r.msg = "OK"

C19_ConnectionClosedWithOperation ==
    transport = "modbus" =>
        \A p \in Calls : (client[p] = "open") <=> (pc[p] = "requesting")

\* C19 witness: an operation has ended after a request that failed, with
\* its connection closed, while another operation has its own connection
\* open.
C19_ClosedAfterFailedRequest ==
    /\ transport = "modbus"
    /\ \E p, q \in Calls :
          /\ pc[p] = "done" /\ client[p] = "closed"
          /\ outcomes[p] # <<>> /\ outcomes[p][Len(outcomes[p])] \in {"timeout", "error"}
          /\ pc[q] = "requesting" /\ client[q] = "open"

\* readRegisters is called as invocation p while the queue holds at least
\* ReadMaxOccurences entries of readRegisters: its wait is refused.
RefusedRead(p) ==
    /\ pc[p] = "idle"
    /\ pc'[p] # "idle"
    /\ op'[p] = "readRegisters"
    /\ Count(queue, "readRegisters") >= ReadMaxOccurences

\* C20: a refused wait leaves the queue entries and the busy flag as they
\* are, and ModbusAPI2.readRegisters then returns the empty list at once:
\* no connection is opened, no request is sent, and busy is not cleared.
C20_RefusedReadChangesNothing ==
    [][\A p \in 1..Readers :
          RefusedRead(p) =>
              /\ queue' = queue
              /\ busy' = busy
              /\ client' = client
              /\ pc'[p] = "done"
              /\ ret'[p] = "list"
              /\ results'[p] = <<>>
              /\ outcomes'[p] = <<>>]_vars

\* C20 witness: a read cycle has returned without having connected while
\* another one is in flight and holds the busy flag.
C20_ReadRefusedWhileBusy ==
    \E p, q \in Calls :
        /\ op[p] = "readRegisters" /\ pc[p] = "done" /\ outcomes[p] = <<>>
        /\ ret[p] = "list"
        /\ pc[q] = "requesting" /\ busy
        /\ Count(queue, "readRegisters") >= ReadMaxOccurences

\* Invocation p is a readBatch that has returned.
BatchRead(p) == pc[p] = "done" /\ op[p] = "readBatch"
\* The words from the first address of the batch to the end of its last
\* register.
SpanOf(batch) ==
    batch[Len(batch)].address + batch[Len(batch)].length - batch[1].address

\* C21: on both transports the word count of the read request of a batch is
\* (address of the last register + length of the last register) minus the
\* address of the first register.
C21_RequestCoversTheBatchSpan ==
    \A p \in Calls :
        BatchRead(p) => outcomes[p][1].length = SpanOf(values[p])

\* The bytes of the answer that hold register i of the batch: offset
\* (address - first address) * 2, length register.length * 2.
OwnBytes(batch, i) ==
    LET offset == (batch[i].address - batch[1].address) * WordBytes
    IN  [from |-> offset, to |-> offset + batch[i].length * WordBytes]

\* C22: ModbusAPI2.readBatch hands the converter, for every register of the
\* batch, the bytes of the answer that belong to the register's own
\* address, also when the batch has address gaps.
C22_EachRegisterGetsItsOwnBytes ==
    \A p \in Calls :
        BatchRead(p) /\ transport = "modbus" =>
            \A i \in 1..Len(values[p]) :
                results[p][i] = OwnBytes(values[p], i)

\* C23: in a batch of more than one register, ModbusAPI2.readBatch hands
\* the converter for the last register every byte of the answer from the
\* register's offset to the end of the answer.
C23_LastRegisterGetsTheRemainder ==
    \A p \in Calls :
        BatchRead(p) /\ transport = "modbus" /\ Len(values[p]) > 1 =>
            results[p][Len(values[p])].to = outcomes[p][1].bytes

\* The turn in which the read that writeBitsToRegister (invocation p)
\* starts with comes to its end: readAddressWithoutConversion returns a
\* buffer or undefined, or throws.
BitsReadEnds(p) ==
    /\ op[p] = "writeBitsToRegister"
    /\ step[p] = 1
    /\ pc[p] \in {"connecting", "requesting"}
    /\ Len(trace'[p]) > Len(trace[p])

\* C24: writeBitsToRegister goes on to its write exactly when the read gave
\* a buffer and bitIndex + bits.length <= 8 * (byte length of the buffer);
\* when the read fails or the bits do not fit it returns false and nothing
\* is written, on both transports.
C24_WriteOnlyAfterReadAndRangeCheck ==
    [][\A p \in Calls :
          BitsReadEnds(p) =>
              IF /\ trace'[p][1] = "buffer"
                 /\ bitIndex[p] + Len(CurDef(p).bits) <= 8 * WordBytes
              THEN /\ step'[p] = 2
                   /\ CurDef(p).program[2].prim = "writeBufferRegister"
                   /\ pc'[p] # "done"
              ELSE /\ pc'[p] = "done"
                   /\ ret'[p] = "false"
                   /\ mem' = mem]_vars

TimeslotActions == {"setAllTimeslotParameters", "setTimeOfUseTimeslotParameters"}
\* The addresses a timeslot action is to write, in order: charge, power
\* limit, battery charge and, for one timeslot, time.
TimeslotOrder(p) ==
    IF op[p] = "setAllTimeslotParameters" THEN <<172, 154, 166>>
    ELSE LET n == register[p].address - 172 IN <<172 + n, 154 + n, 166 + n, 148 + n>>

\* C25: the timeslot actions issue their writes in the order charge, power
\* limit, battery charge (, time), each write only after the write before
\* it has returned true and a 500 ms delay has elapsed since; a write that
\* was applied stays applied when a later one fails.
C25_TimeslotWritesInOrder ==
    \A p \in Calls :
        op[p] \in TimeslotActions =>
            LET program == CurDef(p).program
                order == TimeslotOrder(p)
            IN  /\ Len(program) = 2 * Len(order) - 1
                /\ \A k \in 1..Len(order) :
                      /\ program[2 * k - 1] = Ins("writeRegisters", Reg(order[k]))
                      /\ k > 1 => program[2 * k - 2].prim = "delay"
                /\ pc[p] # "done" => Len(trace[p]) = step[p] - 1
                /\ \A i \in 1..Len(trace[p]) :
                      (i < Len(trace[p]) \/ pc[p] # "done") =>
                          trace[p][i] = IF program[i].prim = "delay" THEN "elapsed" ELSE "true"
                /\ \A i \in 1..Len(trace[p]) :
                      program[i].prim = "writeRegisters" /\ trace[p][i] = "true"
                          => mem[program[i].reg.address] = values[p][1].v

\* C25 witness: setTimeOfUseTimeslotParameters has written charge and
\* power limit, 500 ms apart, and ended on the failure of its battery
\* charge write; the two registers written keep their new value and the
\* time register was not written.
C25_LaterWriteFailedEarlierKept ==
    \E p \in Calls :
        /\ op[p] = "setTimeOfUseTimeslotParameters" /\ pc[p] = "done" /\ ret[p] = "throw"
        /\ trace[p] = <<"true", "elapsed", "true", "elapsed", "false">>
        /\ mem[register[p].address] = 1
        /\ mem[register[p].address - 18] = 1
        /\ mem[register[p].address - 6] = 0
        /\ mem[register[p].address - 24] = 0

\* The 16-bit number in bytes k, k + 1 of a frame (counted from 0),
\* big-endian and little-endian.
U16BE(f, k) == f[k + 1] * 256 + f[k + 2]
U16LE(f, k) == f[k + 1] + f[k + 2] * 256
\* The bytes of the value of a write request.
PayloadOf(a) ==
    IF a.value.isBuffer THEN a.value.data ELSE concat(a.register.dataType, a.value.data)

\* C26: a read request is 8 bytes: unit id, 0x04 for an Input register and
\* 0x03 otherwise, start address and word count big-endian, and the CRC16
\* of bytes 0-5 little-endian in bytes 6-7; a write request has function
\* code 0x10 and ends with the CRC16 of all bytes before it, which lie
\* behind the whole payload.
C26_RequestFrameLayout ==
    \A p \in Calls :
        LET a == values[p][1]
            f == results[p]
            n == Len(f)
        IN  /\ pc[p] = "done" /\ op[p] = "createModbusReadRequest" =>
                  /\ n = 8
                  /\ f[1] = a.unitId
                  /\ f[2] = IF a.register.registerType = "Input" THEN 4 ELSE 3
                  /\ U16BE(f, 2) = a.register.address
                  /\ U16BE(f, 4) = a.length
                  /\ U16LE(f, 6) = calculateBufferCRC(SubSeq(f, 1, 6))
            /\ pc[p] = "done" /\ op[p] = "createModbusWriteRequest" =>
                  /\ f[1] = a.unitId
                  /\ f[2] = 16
                  /\ U16BE(f, 2) = a.register.address
                  /\ U16LE(f, n - 2) = calculateBufferCRC(SubSeq(f, 1, n - 2))
                  /\ 7 + Len(PayloadOf(a)) <= n - 2
                  /\ SubSeq(f, 8, 7 + Len(PayloadOf(a))) = PayloadOf(a)

\* C26 witness: the read request of one holding register at address 0 of
\* unit 1 is 01 03 00 00 00 01 84 0A.
C26_KnownReadRequest ==
    \E p \in Calls :
        /\ pc[p] = "done" /\ op[p] = "createModbusReadRequest"
        /\ results[p] = <<1, 3, 0, 0, 0, 1, 132, 10>>

\* Calculation i of the input a belongs to the device's role and depends
\* on the capability applied, or declares no dependencies.
DependsOnApplied(a, i) ==
    LET calc == a.stateCalculations[i] IN
    /\ (IF a.battery THEN "BATTERY" ELSE "SOLAR") \in calc.deviceTypes
    /\ ~calc.dependecies.defined \/ a.capabilityId \in calc.dependecies.ids

\* C27: after a valid value of capability c was applied, handleResults
\* evaluates and publishes, once each, exactly the state calculations of
\* the device's role whose dependencies contain c or that declare none.
C27_DependentCalculationsRun ==
    \A p \in Calls :
        pc[p] = "done" /\ op[p] = "handleResults" =>
            LET a == values[p][1] IN
            \A i \in 1..Len(a.stateCalculations) :
                Cardinality({k \in 1..Len(results[p]) : results[p][k] = i})
                    = IF DependsOnApplied(a, i) THEN 1 ELSE 0

\* C27 witness: of two calculations of the device's role the one that
\* depends on the capability applied was evaluated, the one that depends
\* on another capability only was not.
C27_OneRunOneSkipped ==
    \E p \in Calls :
        /\ pc[p] = "done" /\ op[p] = "handleResults"
        /\ Len(values[p][1].stateCalculations) = 2
        /\ values[p][1].stateCalculations[2].dependecies.defined
        /\ values[p][1].capabilityId \notin values[p][1].stateCalculations[2].dependecies.ids
        /\ ~values[p][1].battery
        /\ "SOLAR" \in values[p][1].stateCalculations[2].deviceTypes
        /\ results[p] = <<1>>

\* C28: every performRequest returns and sets runningRequest back to
\* false, whatever happens on its socket: an operation whose request is
\* out returns, and runningRequest does not stay true.
C28_EveryRequestEnds ==
    /\ \A p \in 1..ApiCalls : (pc[p] = "requesting") ~> (pc[p] = "done")
    /\ runningRequest ~> ~runningRequest

\* C29: the inactivity timeout on the socket of a request is the
\* connection timeout BaseDevice.getApi configures, 5000 ms, on both
\* transports, and a request that gets no answer times out after it.
C29_SocketTimeoutIsConnectionTimeout ==
    \A p \in Calls :
        /\ pc[p] = "requesting" => client[p].timeout = ConnectionTimeout
        /\ pc[p] = "done" /\ ret[p] = "undefined" => results[p] = <<ConnectionTimeout>>

\* C30: on the inverter device a read cycle (api.readRegisters, then
\* handleResults) never runs while a device action runs, and never while
\* the register write an action started is still out.
ReadCycleRuns(p) == op[p] = "readRegisters" /\ pc[p] \in {"reading", "handling"}
ActionRuns(q) == op[q] \in UserActions /\ pc[q] = "acting"
ActionWriteOut(q) == op[q] \in UserActions /\ client[q] = "open"
C30_ReadCycleAndActionExclusive ==
    \A p \in Calls, q \in Calls :
        ReadCycleRuns(p) => ~ActionRuns(q) /\ ~ActionWriteOut(q)
\* The part of C30 about the executions alone.
ReadCycleAndActionNeverRunTogether ==
    \A p \in Calls, q \in Calls : ~(ReadCycleRuns(p) /\ ActionRuns(q))

\* C37: setTimeOfUseDayEnabled called with a day outside 1..7 sends no
\* request: it has returned without a connection, a read or a write of
\* register 146.
DayOf(p) == values[p][1].v
C37_InvalidDayTouchesNothing ==
    \A p \in Calls :
        op[p] = "setTimeOfUseDayEnabled" /\ DayOf(p) \notin 1..7 =>
            /\ pc[p] = "done"
            /\ client[p] = "none"
            /\ outcomes[p] = <<>>
            /\ trace[p] = <<>>
\* The bit of day 8 is written to register 146.
InvalidDayWritten ==
    \E p \in Calls :
        /\ op[p] = "setTimeOfUseDayEnabled" /\ DayOf(p) = 8 /\ pc[p] = "done"
        /\ mem[146] = 256

\* Executions of wait(command, ...) suspended in its loop on one ModbusAPI2
\* instance: those an operation awaits and, for writeRegisters, those it
\* does not await.
WaitsBlocked(command) ==
    Cardinality({p \in Calls : pc[p] = "queued" /\ CommandOf(CurIns(p).prim) = command})
        + (IF command = "writeRegisters" THEN detached ELSE 0)
MaxOccurencesPassed(command) ==
    IF command = "readRegisters" THEN ReadMaxOccurences ELSE WriteMaxOccurences
\* C39: for every command name the CommandQueue of a ModbusAPI2 instance
\* holds as many live entries as executions of wait are suspended in its
\* loop for that name, and never more than the maxOccurences passed with it.
C39_EntriesAreTheBlockedWaits ==
    \A command \in {"readRegisters", "writeRegisters", "writeBufferRegister"} :
        /\ Count(queue, command) = WaitsBlocked(command)
        /\ Count(queue, command) <= MaxOccurencesPassed(command)
\* C39 witness: while a call holds the queue, wait has as many read cycles
\* suspended as it accepts, and their entries are the queue.
C39_QueueFullOfReads ==
    /\ busy
    /\ Count(queue, "readRegisters") = ReadMaxOccurences
    /\ WaitsBlocked("readRegisters") = ReadMaxOccurences
    /\ Len(queue) = ReadMaxOccurences

\* Invocation p is an action function of the ModbusDevice that has been
\* called and has not returned or thrown.
ActionFunctionRuns(p) == op[p] \in DeviceActions /\ InProgress(p)
\* C36: isRunningAction is true exactly while an action function of the
\* ModbusDevice runs, at most one runs at a time, and a call with an
\* unsupported action name has returned without running or sending
\* anything.
C36_FlagIsTheRunningAction ==
    /\ isRunningAction = (\E p \in Calls : ActionFunctionRuns(p))
    /\ Cardinality({p \in Calls : ActionFunctionRuns(p)}) <= 1
    /\ \A p \in Calls :
          op[p] = "unsupported" =>
              /\ pc[p] = "done" /\ ret[p] = "void"
              /\ trace[p] = <<>> /\ outcomes[p] = <<>> /\ client[p] = "none"
\* C36 witness: an action has thrown, the flag is clear again and the
\* next call, with an unsupported name, has returned.
C36_ThrownThenUnsupported ==
    \E p, q \in Calls :
        /\ op[p] \in DeviceActions /\ pc[p] = "done" /\ ret[p] = "throw"
        /\ op[q] = "unsupported" /\ pc[q] = "done"
        /\ ~isRunningAction

\* An invocation on the inverter device that has taken runningRequest and
\* not ended: a read cycle, or a callAction whose device action is
\* running or about to be retried.
HoldsRunningRequest(p) ==
    /\ device[p] = "inverter"
    /\ \/ ReadCycleRuns(p)
       \/ op[p] \in UserActions /\ pc[p] \in {"acting", "pause", "flagwait", "retry"}
\* C31: runningRequest of the inverter device is true only while a read
\* cycle or a callAction holds it: when callAction has finished handling a
\* command, on whatever path, the flag is false again.
C31_RunningRequestIsHeld == baseRunningRequest => \E p \in Calls : HoldsRunningRequest(p)

\* The device action of p throws in this step: a register write of
\* setAllTimeslotParameters is answered with a failure.
ActionThrows(p) ==
    /\ op[p] = "setAllTimeslotParameters"
    /\ pc[p] = "acting"
    /\ client[p] = "open"
    /\ client'[p] = "closed"
    /\ outcomes'[p][Len(outcomes'[p])] # "ok"
\* C32: when the device action callAction has invoked fails, callAction
\* sets the timer that invokes the action again with retryCount + 1.
C32_FailedActionIsRetried ==
    [][\A p \in 1..GateSlots : ActionThrows(p) => pc'[p] = "retry"]_vars

\* The read timers that are pending.
PendingTimers == {p \in Calls : pc[p] = "scheduled"}
\* C33: at most one read timer of the inverter device is pending, and
\* readRegisterTimeout references it.
C33_OneTimerReferenced ==
    /\ Cardinality(PendingTimers) <= 1
    /\ PendingTimers \subseteq {readRegisterTimeout}

\* C34: once onSettings has disabled the inverter device (isStopping is
\* set), and until it is enabled again, no read timer is pending or gets
\* scheduled and no invocation starts api.readRegisters.
C34_NoReadsWhileDisabled ==
    [][isStopping' =>
          /\ \A p \in 1..ReadSlots : pc'[p] # "scheduled"
          /\ isStopping => \A p \in 1..ReadSlots : pc'[p] = "reading" => pc[p] = "reading"]_vars

\* C35: the battery device never gets an API instance, none of its
\* invocations has a request out or waits for one, and its runningRequest
\* stays false; the action of its flow card runs on the inverter device.
C35_BatteryOnlyForwards ==
    /\ ~api["battery"]
    /\ ~batteryRunningRequest
    /\ \A p \in Calls :
          device[p] = "battery" =>
              /\ pc[p] \in {"setAvailable", "done"}
              /\ client[p] = "none"
              /\ outcomes[p] = <<>>
\* A flow card of the battery device has had a register written through
\* the inverter device, and the settings of the battery device were saved.
C35_ForwardedActionWrote ==
    /\ \E p \in Calls : op[p] \in UserActions /\ device[p] = "inverter" /\ outcomes[p] = <<"ok">>
    /\ \E p \in Calls : op[p] = "onSettings" /\ device[p] = "battery" /\ pc[p] = "done"

\* The readRegisters invocations past the too-many-requests guard and not
\* through their finally block.
CountedReads ==
    {p \in Calls : op[p] = "readRegisters" /\ pc[p] \in {"devwait", "reading", "handling"}}
\* C38: runningRequestCount stays within 0..3 and is the number of
\* readRegisters invocations past the guard and not through finally.
C38_CountWithinThree ==
    /\ runningRequestCount \in 0..3
    /\ runningRequestCount = Cardinality(CountedReads)
\* The second part of C38 alone.
CountIsTheCountedReads == runningRequestCount = Cardinality(CountedReads)

====
